---- MODULE Spec2Model ----
(***************************************************************************)
(* Message orchestration and routing engine of the Chatwoot agent          *)
(* (src/Agente.py, src/Agente2.py, src/ChatwootClient.py).                 *)
(*                                                                         *)
(* Texts are TLA+ strings; Len, SubSeq and \o act on them character by     *)
(* character, so normalisation, folding, substring tests and the regular   *)
(* expressions of the classifier are computed on the characters as the     *)
(* Python code computes them.                                              *)
(***************************************************************************)
EXTENDS Integers, Sequences, FiniteSets, TLC

(***************************************************************************)
(* Characters                                                              *)
(***************************************************************************)

\* Optional values: None is the empty tuple, a present value v is <<v>>.
None == <<>>
Some(v) == <<v>>

\* The character of text t at position i (1-based).
Ch(t, i) == SubSeq(t, i, i)

\* Position of character c in the table tab, 0 when absent.
IndexOf(c, tab) ==
    LET hits == {i \in 1..Len(tab) : Ch(tab, i) = c}
    IN  IF hits = {} THEN 0 ELSE CHOOSE i \in hits : \A j \in hits : i <= j

InChars(c, tab) == \E i \in 1..Len(tab) : Ch(tab, i) = c

UpperChars == "ABCDEFGHIJKLMNOPQRSTUVWXYZÁÂÃÀÉÊÍÓÔÕÚÇ"
LowerChars == "abcdefghijklmnopqrstuvwxyzáâãàéêíóôõúç"
\* Precomposed accented letters and the base letter NFD leaves once the
\* combining mark (category Mn) is dropped.
AccentChars == "áâãàéêíóôõúçÁÂÃÀÉÊÍÓÔÕÚÇ"
BaseChars   == "aaaaeeioooucAAAAEEIOOOUC"
DigitChars  == "0123456789"
SpaceChars  == " \t\n\r"

\* The characters of a table, as a set.
CharsOf(tab) == {Ch(tab, i) : i \in 1..Len(tab)}

UpperSet  == CharsOf(UpperChars)
AccentSet == CharsOf(AccentChars)
SpaceSet  == CharsOf(SpaceChars)
DigitSet  == CharsOf(DigitChars)
\* \w of Python's re on str: letters (accented ones included), digits, "_".
WordSet   == CharsOf(LowerChars) \cup UpperSet \cup DigitSet \cup {"_"}

LowerMap  == [c \in UpperSet |-> Ch(LowerChars, IndexOf(c, UpperChars))]
AccentMap == [c \in AccentSet |-> Ch(BaseChars, IndexOf(c, AccentChars))]

\* str.lower() on one character.
LowerChar(c) == IF c \in UpperSet THEN LowerMap[c] ELSE c

\* unicodedata.normalize("NFD", c) with the Mn characters removed.
StripAccent(c) == IF c \in AccentSet THEN AccentMap[c] ELSE c

IsSpace(c) == c \in SpaceSet

IsWordChar(c) == c \in WordSet

(***************************************************************************)
(* Text helpers                                                            *)
(***************************************************************************)

RECURSIVE MapChars(_, _)
\* The text t with every character sent through the table named by kind.
MapChars(kind, t) ==
    IF t = "" THEN ""
    ELSE (IF kind = "lower" THEN LowerChar(Head(t)) ELSE StripAccent(Head(t)))
         \o MapChars(kind, Tail(t))

\* str.lower()
Lower(t) == MapChars("lower", t)

RECURSIVE LStrip(_)
LStrip(t) == IF t # "" /\ IsSpace(Head(t)) THEN LStrip(Tail(t)) ELSE t

RECURSIVE RStrip(_)
RStrip(t) ==
    IF t # "" /\ IsSpace(Ch(t, Len(t))) THEN RStrip(SubSeq(t, 1, Len(t) - 1)) ELSE t

\* str.strip()
Strip(t) == RStrip(LStrip(t))

RECURSIVE CollapseSpaces(_)
\* re.sub(r"\s+", " ", t): every maximal run of whitespace becomes one space.
CollapseSpaces(t) ==
    IF t = "" THEN ""
    ELSE IF IsSpace(Head(t))
         THEN " " \o CollapseSpaces(LStrip(t))
         ELSE Head(t) \o CollapseSpaces(Tail(t))

\* keyword in text
Contains(t, k) ==
    \/ k = ""
    \/ \E i \in 1..(Len(t) - Len(k) + 1) : SubSeq(t, i, i + Len(k) - 1) = k

\* str.isdigit()
IsDigit(t) == t # "" /\ \A i \in 1..Len(t) : Ch(t, i) \in DigitSet

normalize_text(text) == CollapseSpaces(Lower(Strip(text)))

fold_text(text) == MapChars("fold", normalize_text(text))

(***************************************************************************)
(* Regular expressions: re.search(pattern, text) is not None               *)
(*                                                                         *)
(* A pattern is a tuple: <<"lit", s>> the literal s, <<"wb">> \b,          *)
(* <<"any*">> .*, <<"w*">> \w*, <<"s*">> \s*, <<"cls+", chars>> one or     *)
(* more characters of the class, <<"opt", p>> p?, <<"alt", ps>> p1|p2|..,  *)
(* <<"cat", ps>> p1 p2 ...                                                 *)
(***************************************************************************)

Lit(s)  == <<"lit", s>>
WB      == <<"wb">>
AnyStar == <<"any*">>
WStar   == <<"w*">>
SStar   == <<"s*">>
ClsPlus(chars) == <<"cls+", chars>>
Opt(p)  == <<"opt", p>>
Alt(ps) == <<"alt", ps>>
Cat(ps) == <<"cat", ps>>

\* \b at offset i of t: exactly one of the neighbours is a word character.
AtWordBoundary(t, i) ==
    LET before == i >= 1 /\ IsWordChar(Ch(t, i))
        after  == i < Len(t) /\ IsWordChar(Ch(t, i + 1))
    IN  before # after

RECURSIVE Ends(_, _, _)
RECURSIVE EndsCat(_, _, _)
\* The offsets j at which a match of pattern p that starts at offset i of t
\* can end (offsets count the characters before the position).
Ends(p, t, i) ==
    CASE p[1] = "lit" ->
           IF i + Len(p[2]) <= Len(t) /\ SubSeq(t, i + 1, i + Len(p[2])) = p[2]
           THEN {i + Len(p[2])} ELSE {}
      [] p[1] = "wb" -> IF AtWordBoundary(t, i) THEN {i} ELSE {}
      [] p[1] = "any*" ->
           {j \in i..Len(t) : \A k \in (i + 1)..j : Ch(t, k) # "\n"}
      [] p[1] = "w*" ->
           {j \in i..Len(t) : \A k \in (i + 1)..j : IsWordChar(Ch(t, k))}
      [] p[1] = "s*" ->
           {j \in i..Len(t) : \A k \in (i + 1)..j : IsSpace(Ch(t, k))}
      [] p[1] = "cls+" ->
           {j \in (i + 1)..Len(t) : \A k \in (i + 1)..j : InChars(Ch(t, k), p[2])}
      [] p[1] = "opt" -> {i} \cup Ends(p[2], t, i)
      [] p[1] = "alt" -> UNION {Ends(p[2][n], t, i) : n \in DOMAIN p[2]}
      [] p[1] = "cat" -> EndsCat(p[2], t, {i})

EndsCat(ps, t, starts) ==
    IF ps = <<>> \/ starts = {} THEN starts
    ELSE EndsCat(Tail(ps), t, UNION {Ends(Head(ps), t, i) : i \in starts})

re_search(p, t) == \E i \in 0..Len(t) : Ends(p, t, i) # {}

(***************************************************************************)
(* Configuration (environment variables read at import, src/Agente.py)     *)
(***************************************************************************)

CHATWOOT_LABEL_HUMANO == "humano"
CHATWOOT_LABEL_IA_ORQUESTRADOR == "ia_orquestrador"
CHATWOOT_LABEL_IA_MEC == "ia_mec"
CHATWOOT_LABEL_IA_FALHA == "ia_falha"
TEAM_DEFAULT_HUMAN == "Suporte"

(***************************************************************************)
(* MessageOrchestratorAgent.__init__: the rule tables                      *)
(***************************************************************************)

_managed_labels ==
    {CHATWOOT_LABEL_IA_ORQUESTRADOR, CHATWOOT_LABEL_IA_MEC,
     CHATWOOT_LABEL_HUMANO, CHATWOOT_LABEL_IA_FALHA}

HumanTargets7 ==
    Alt(<<Lit("suporte"), Lit("financeiro"), Lit("atendente"),
          Lit("especialista"), Lit("equipe"), Lit("time"), Lit("humano")>>)
HumanTargets6 ==
    Alt(<<Lit("suporte"), Lit("financeiro"), Lit("atendente"),
          Lit("especialista"), Lit("equipe"), Lit("time")>>)
HumanTargets5 ==
    Alt(<<Lit("suporte"), Lit("financeiro"), Lit("time"), Lit("equipe"),
          Lit("humano")>>)
Article4 == Opt(Alt(<<Lit("o"), Lit("a"), Lit("um"), Lit("uma")>>))

_human_patterns ==
    << Cat(<<WB, Lit("humano"), WB>>),
       Cat(<<WB, Lit("atendente"), WB>>),
       Cat(<<WB, Lit("especialista"), WB>>),
       Cat(<<WB, Lit("financeir"), WStar, WB>>),
       Cat(<<WB, Lit("suporte"), WB>>),
       Cat(<<WB, Lit("support"), WB>>),
       Cat(<<Lit("falar com "), Opt(Lit("uma ")), Lit("pessoa")>>),
       Cat(<<Lit("quero falar com "), Article4, SStar, HumanTargets7>>),
       Cat(<<Lit("falar com "), Article4, SStar, HumanTargets6>>),
       Lit("suporte humano"),
       Cat(<<Lit("quero falar com "), AnyStar, Lit("humano")>>),
       Cat(<<Lit("encaminhar para "), AnyStar, Lit("humano")>>),
       Cat(<<Lit("encaminh"), Alt(<<Lit("a"), Lit("e"), Lit("ar")>>), AnyStar,
             Alt(<<Lit("suporte"), Lit("financeiro"), Lit("time"), Lit("equipe"),
                   Lit("atendente"), Lit("especialista"), Lit("humano")>>)>>),
       Cat(<<Lit("me encaminh"), Alt(<<Lit("a"), Lit("e")>>), AnyStar,
             HumanTargets5>>),
       Cat(<<Lit("passar para "), Opt(Alt(<<Lit("o"), Lit("a")>>)), SStar,
             HumanTargets5>>) >>

_human_action_keywords ==
    {"falar", "encaminhar", "passar", "transferir", "atender",
     "talk", "speak", "transfer", "escalate",
     "hablar", "escalar"}

_human_target_keywords ==
    {"humano", "pessoa", "atendente", "especialista", "equipe", "time",
     "suporte", "financeir",
     "human", "person", "agent", "team", "support",
     "persona", "agente", "equipo", "soporte"}

_ai_patterns ==
    << Cat(<<WB, Lit("ia"), WB>>),
       Cat(<<Lit("intelig"), Alt(<<Lit("e"), Lit("ê")>>), Lit("ncia artificial")>>),
       Lit("quero ajuda da ia"),
       Lit("voltar para ia"),
       Lit("pode ser pela ia") >>

_mec_keywords ==
    {"mec", "regimento", "resolução", "resolucao", "tcc", "acc", "ufpa",
     "fasi", "documento", "norma", "regra", "artigo", "credito", "crédito",
     "carga horaria", "carga horária"}

_smalltalk ==
    {"oi", "ola", "olá", "bom dia", "boa tarde", "boa noite", "tudo bem",
     "obrigado", "obrigada", "valeu", "ok"}

(***************************************************************************)
(* MessageOrchestratorAgent: the classifier                                *)
(***************************************************************************)

IntentDecision(route, reason, requested_human, requested_ai, requested_team) ==
    [route |-> route, reason |-> reason, requested_human |-> requested_human,
     requested_ai |-> requested_ai, requested_team |-> requested_team]

_requested_human(text) ==
    \/ \E n \in DOMAIN _human_patterns : re_search(_human_patterns[n], text)
    \/ LET folded == fold_text(text)
           has_action == \E k \in _human_action_keywords : Contains(folded, k)
           has_target == \E k \in _human_target_keywords : Contains(folded, k)
       IN  has_action /\ has_target

_requested_ai(text) ==
    \E n \in DOMAIN _ai_patterns : re_search(_ai_patterns[n], text)

_is_mec_topic(text) == \E k \in _mec_keywords : Contains(text, k)

_is_smalltalk(text) == text \in _smalltalk

\* Outcome of self._classifier_agent.run(text): it raises, or it returns a
\* result whose content is the given text ("" also stands for content None).
LlmRaises == [raises |-> TRUE, content |-> ""]
LlmReply(content) == [raises |-> FALSE, content |-> content]

HumanTeamPattern ==
    Cat(<<Lit("human"), ClsPlus(": \t\n\r"),
          ClsPlus("abcdefghijklmnopqrstuvwxyz0123456789_-")>>)

Min(S) == CHOOSE m \in S : \A n \in S : m <= n
Max(S) == CHOOSE m \in S : \A n \in S : m >= n

\* re.search(r"human[:\s]+([a-z0-9_-]+)", value): group 1 of the leftmost
\* match, both repetitions greedy; None when nothing matches.
ExtractTeam(value) ==
    LET starts == {i \in 0..Len(value) : Ends(HumanTeamPattern, value, i) # {}}
    IN  IF starts = {} THEN None
        ELSE LET i0 == Min(starts)
                 sep_end == Max(Ends(Cat(<<Lit("human"), ClsPlus(": \t\n\r")>>),
                                     value, i0))
                 grp_end == Max(Ends(HumanTeamPattern, value, i0))
             IN  Some(Strip(SubSeq(value, sep_end + 1, grp_end)))

\* Mutant: the extracted team is never validated.
TeamRecognized_unvalidated(extracted_team, active_teams) == TRUE

\* The validation of the extracted team against the active teams.
TeamRecognized(extracted_team, active_teams) ==
    \E n \in DOMAIN active_teams :
        \/ Contains(fold_text(active_teams[n]), extracted_team)
        \/ Contains(extracted_team, fold_text(active_teams[n]))

\* Mutant: an answer with no recognized route is taken as MEC.
_classify_with_llm_lenient(text, agent, active_teams, llm) ==
    IF ~agent THEN None
    ELSE IF llm.raises THEN None
    ELSE LET value == normalize_text(Strip(llm.content))
         IN  IF Contains(value, "human")
             THEN LET team_match == ExtractTeam(value)
                  IN  Some(IntentDecision("human", "llm_classifier", TRUE, FALSE,
                           IF team_match # None
                              /\ ~TeamRecognized(team_match[1], active_teams)
                           THEN None ELSE team_match))
             ELSE IF Contains(value, "direct")
             THEN Some(IntentDecision("direct", "llm_classifier", FALSE, FALSE, None))
             ELSE Some(IntentDecision("mec", "llm_classifier", FALSE, FALSE, None))

\* agent: whether self._classifier_agent is set; llm: what its run produces.
\* The result is None or <<decision>>.
_classify_with_llm(text, agent, active_teams, llm) ==
    IF ~agent THEN None
    ELSE IF llm.raises THEN None
    ELSE LET value_raw == Strip(llm.content)
             value == normalize_text(value_raw)
         IN  IF Contains(value, "human")
             THEN LET team_match == ExtractTeam(value)
                      extracted_team ==
                          IF team_match # None /\ team_match[1] # ""
                             /\ ~TeamRecognized(team_match[1], active_teams)
                          THEN None
                          ELSE team_match
                  IN  Some(IntentDecision("human", "llm_classifier", TRUE, FALSE,
                                          extracted_team))
             ELSE IF Contains(value, "direct")
             THEN Some(IntentDecision("direct", "llm_classifier", FALSE, FALSE, None))
             ELSE IF Contains(value, "mec")
             THEN Some(IntentDecision("mec", "llm_classifier", FALSE, FALSE, None))
             ELSE None

\* Mutant: the human label alone locks the conversation.
_human_lock_human_label_alone(current_labels, requested_ai) ==
    /\ CHATWOOT_LABEL_HUMANO \in current_labels
    /\ ~requested_ai

\* Mutant: the lock holds even when the user asks for the AI.
_human_lock_ignoring_ai_request(current_labels, requested_ai) ==
    /\ CHATWOOT_LABEL_HUMANO \in current_labels
    /\ CHATWOOT_LABEL_IA_FALHA \in current_labels

\* Mutant: the lock tests the absence of the failure label.
_human_lock_inverted(current_labels, requested_ai) ==
    /\ CHATWOOT_LABEL_HUMANO \in current_labels
    /\ CHATWOOT_LABEL_IA_FALHA \notin current_labels
    /\ ~requested_ai

\* The human lock: the conversation was escalated after a low-confidence
\* answer and the user does not ask for the AI.
_human_lock(current_labels, requested_ai) ==
    /\ CHATWOOT_LABEL_HUMANO \in current_labels
    /\ CHATWOOT_LABEL_IA_FALHA \in current_labels
    /\ ~requested_ai

\* Mutant: the default escalates to a human instead of the knowledge service.
_rule_based_decision_pessimistic(text) ==
    IF _is_smalltalk(text)
    THEN IntentDecision("direct", "smalltalk", FALSE, FALSE, None)
    ELSE IF _is_mec_topic(text)
    THEN IntentDecision("mec", "mec_domain_keyword", FALSE, FALSE, None)
    ELSE IntentDecision("human", "default_mec_route", FALSE, FALSE, None)

\* The last three steps of the ladder: smalltalk, domain keyword, default.
_rule_based_decision(text) ==
    IF _is_smalltalk(text)
    THEN IntentDecision("direct", "smalltalk", FALSE, FALSE, None)
    ELSE IF _is_mec_topic(text)
    THEN IntentDecision("mec", "mec_domain_keyword", FALSE, FALSE, None)
    ELSE IntentDecision("mec", "default_mec_route", FALSE, FALSE, None)

\* Mutant: the human lock is tested before the explicit human request.
classify_intent_run_lock_first(message, current_labels, agent, active_teams, llm) ==
    LET text == normalize_text(message)
        requested_human == _requested_human(text)
        requested_ai == _requested_ai(text)
    IN  IF _human_lock(current_labels, requested_ai)
        THEN [decision |-> IntentDecision("human", "conversation_already_human",
                                          FALSE, FALSE, None),
              llm_called |-> FALSE]
        ELSE IF requested_human
        THEN [decision |-> IntentDecision("human", "explicit_human_request",
                                          TRUE, requested_ai, None),
              llm_called |-> FALSE]
        ELSE IF requested_ai
        THEN [decision |-> IntentDecision("mec", "explicit_ai_request",
                                          FALSE, TRUE, None),
              llm_called |-> FALSE]
        ELSE LET llm_decision == _classify_with_llm(text, agent, active_teams, llm)
             IN  [decision |-> IF llm_decision # None THEN llm_decision[1]
                               ELSE _rule_based_decision(text),
                  llm_called |-> agent]

\* classify_intent together with what it did on the way: llm_called tells
\* whether self._classifier_agent.run was invoked.
classify_intent_run(message, current_labels, agent, active_teams, llm) ==
    LET text == normalize_text(message)
        requested_human == _requested_human(text)
        requested_ai == _requested_ai(text)
    IN  IF requested_human
        THEN [decision |-> IntentDecision("human", "explicit_human_request",
                                          TRUE, requested_ai, None),
              llm_called |-> FALSE]
        ELSE IF _human_lock(current_labels, requested_ai)
        THEN [decision |-> IntentDecision("human", "conversation_already_human",
                                          FALSE, FALSE, None),
              llm_called |-> FALSE]
        ELSE IF requested_ai
        THEN [decision |-> IntentDecision("mec", "explicit_ai_request",
                                          FALSE, TRUE, None),
              llm_called |-> FALSE]
        ELSE LET llm_decision == _classify_with_llm(text, agent, active_teams, llm)
             IN  [decision |-> IF llm_decision # None THEN llm_decision[1]
                               ELSE _rule_based_decision(text),
                  llm_called |-> agent]

classify_intent(message, current_labels, agent, active_teams, llm) ==
    classify_intent_run(message, current_labels, agent, active_teams, llm).decision

\* The labels of the model in the order sorted() gives them.
SortedLabels ==
    <<"humano", "ia_falha", "ia_mec", "ia_orquestrador", "urgente", "vip">>

\* sorted(labels): the list of the members of a label set, in order.
Sorted(labels) == SelectSeq(SortedLabels, LAMBDA l : l \in labels)

\* The members of a list.
ToSet(list) == {list[i] : i \in DOMAIN list}

\* Mutant: the managed labels of the snapshot are not removed.
_compose_state_labels_keeping_managed(current_labels, target_labels) ==
    Sorted(current_labels \cup target_labels)

\* Mutant: the labels written are the target labels alone.
_compose_state_labels_target_only(current_labels, target_labels) ==
    Sorted(target_labels)

_compose_state_labels(current_labels, target_labels) ==
    Sorted((current_labels \ _managed_labels) \cup target_labels)

(***************************************************************************)
(* Team selection and resolution                                           *)
(***************************************************************************)

\* The first team of the list whose folded name satisfies P, else None.
FirstTeam(P(_), active_teams) ==
    LET hits == {n \in DOMAIN active_teams : P(fold_text(active_teams[n]))}
    IN  IF hits = {} THEN None ELSE Some(active_teams[Min(hits)])

\* Mutant: no team is the support team.
_support_team_name_unset(active_teams) == None

_support_team_name(active_teams) ==
    FirstTeam(LAMBDA folded_name :
                  Contains(folded_name, "suporte") \/ Contains(folded_name, "support"),
              active_teams)

\* The name itself, or its stem without the last character at a word start.
_name_matches_text(folded_name, text) ==
    \/ Contains(text, folded_name)
    \/ /\ Len(folded_name) > 4
       /\ re_search(Cat(<<WB, Lit(SubSeq(folded_name, 1, Len(folded_name) - 1))>>),
                    text)

\* x or y, for optional values whose content is never falsy.
OrElse(x, y) == IF x # None THEN x ELSE y

\* A local: the value is computed where it is bound and named in the body.
With(value, Body(_)) == Body(value)

\* Mutant: a generic mention of a team is looked at first.
_pick_human_team_generic_first(content, active_teams, human_team_id) ==
    LET normalized == fold_text(content)
        teams == active_teams
        has(k) == Contains(normalized, k)
        mentioned ==
            FirstTeam(LAMBDA f : f # "" /\ _name_matches_text(f, normalized), teams)
        financeiro ==
            IF re_search(Cat(<<WB, Lit("financeir")>>), normalized)
            THEN FirstTeam(LAMBDA f : Contains(f, "financeiro"), teams) ELSE None
        suporte ==
            IF re_search(Cat(<<WB, Lit("suport")>>), normalized)
            THEN FirstTeam(LAMBDA f : Contains(f, "suporte"), teams) ELSE None
        support ==
            IF has("support") \/ has("soporte")
            THEN FirstTeam(LAMBDA f : \/ Contains(f, "support")
                                      \/ Contains(f, "suporte")
                                      \/ Contains(f, "soporte"), teams)
            ELSE None
        default_human ==
            IF \E n \in DOMAIN teams : teams[n] = TEAM_DEFAULT_HUMAN
            THEN Some(TEAM_DEFAULT_HUMAN) ELSE None
        generic ==
            IF has("equipe") \/ has("time") \/ has("team") \/ has("equipo")
            THEN OrElse(_support_team_name(teams), default_human) ELSE None
        mec ==
            IF has("mec") THEN FirstTeam(LAMBDA f : f = "suporte", teams) ELSE None
        fallback ==
            IF teams # <<>>
            THEN OrElse(_support_team_name(teams), OrElse(default_human, Some(teams[1])))
            ELSE IF human_team_id # "" THEN Some(human_team_id)
            ELSE IF TEAM_DEFAULT_HUMAN # "" THEN Some(TEAM_DEFAULT_HUMAN)
            ELSE None
    IN  OrElse(generic, OrElse(mentioned, OrElse(financeiro, OrElse(suporte,
            OrElse(support, OrElse(mec, fallback))))))

\* MessageOrchestratorAgent._pick_human_team: None, or <<the team chosen>>.
_pick_human_team(content, active_teams, human_team_id) ==
    LET normalized == fold_text(content)
        teams == active_teams
        has(k) == Contains(normalized, k)
        mentioned ==
            FirstTeam(LAMBDA f : f # "" /\ _name_matches_text(f, normalized), teams)
        financeiro ==
            IF re_search(Cat(<<WB, Lit("financeir")>>), normalized)
            THEN FirstTeam(LAMBDA f : Contains(f, "financeiro"), teams) ELSE None
        suporte ==
            IF re_search(Cat(<<WB, Lit("suport")>>), normalized)
            THEN FirstTeam(LAMBDA f : Contains(f, "suporte"), teams) ELSE None
        support ==
            IF has("support") \/ has("soporte")
            THEN FirstTeam(LAMBDA f : \/ Contains(f, "support")
                                      \/ Contains(f, "suporte")
                                      \/ Contains(f, "soporte"), teams)
            ELSE None
        default_human ==
            IF \E n \in DOMAIN teams : teams[n] = TEAM_DEFAULT_HUMAN
            THEN Some(TEAM_DEFAULT_HUMAN) ELSE None
        generic ==
            IF has("equipe") \/ has("time") \/ has("team") \/ has("equipo")
            THEN OrElse(_support_team_name(teams), default_human) ELSE None
        mec ==
            IF has("mec") THEN FirstTeam(LAMBDA f : f = "suporte", teams) ELSE None
        fallback ==
            IF teams # <<>>
            THEN OrElse(_support_team_name(teams), OrElse(default_human, Some(teams[1])))
            ELSE IF human_team_id # "" THEN Some(human_team_id)
            ELSE IF TEAM_DEFAULT_HUMAN # "" THEN Some(TEAM_DEFAULT_HUMAN)
            ELSE None
    IN  OrElse(mentioned, OrElse(financeiro, OrElse(suporte, OrElse(support,
            OrElse(generic, OrElse(mec, fallback))))))

RECURSIVE ParseInt(_)
\* int(value) of a string of digits.
ParseInt(value) ==
    IF value = "" THEN 0
    ELSE 10 * ParseInt(SubSeq(value, 1, Len(value) - 1))
         + (IndexOf(Ch(value, Len(value)), DigitChars) - 1)

\* A dict as a function: d.get(k) and d[k] = v.
Get(d, k) == IF k \in DOMAIN d THEN Some(d[k]) ELSE None
Put(d, k, v) == [x \in DOMAIN d \cup {k} |-> IF x = k THEN v ELSE d[x]]
EmptyDict == [x \in {} |-> 0]

\* ChatwootClient._fold_text (the same folding as fold_text).
_fold_text(value) == MapChars("fold", CollapseSpaces(Lower(Strip(value))))

RECURSIVE ScanTeams_last_partial(_, _, _, _)
\* Mutant: a later partial match replaces an earlier one.
ScanTeams_last_partial(teams, query_folded, cache, best_match) ==
    IF teams = <<>> THEN [cache |-> cache, exact |-> None, best_match |-> best_match]
    ELSE LET team == Head(teams)
             name == Strip(team.name)
             team_name_folded == _fold_text(name)
             stored == Put(Put(cache, Lower(name), team.id), team_name_folded, team.id)
         IN  IF name = "" THEN ScanTeams_last_partial(Tail(teams), query_folded, cache, best_match)
             ELSE IF team_name_folded = query_folded
             THEN [cache |-> stored, exact |-> Some(team.id), best_match |-> best_match]
             ELSE ScanTeams_last_partial(Tail(teams), query_folded, stored,
                     IF \/ Contains(team_name_folded, query_folded)
                        \/ Contains(query_folded, team_name_folded)
                     THEN Some(team.id) ELSE best_match)

RECURSIVE ScanTeams(_, _, _, _)
\* The loop of resolve_team_id over the listed teams: every team visited is
\* stored under its case-folded and its accent-folded name; an exact match
\* returns at once, the first partial match is kept for the end.
ScanTeams(teams, query_folded, cache, best_match) ==
    IF teams = <<>> THEN [cache |-> cache, exact |-> None, best_match |-> best_match]
    ELSE LET team == Head(teams)
             name == Strip(team.name)
             team_name_folded == _fold_text(name)
             stored == Put(Put(cache, Lower(name), team.id), team_name_folded, team.id)
         IN  IF name = "" THEN ScanTeams(Tail(teams), query_folded, cache, best_match)
             ELSE IF team_name_folded = query_folded
             THEN [cache |-> stored, exact |-> Some(team.id), best_match |-> best_match]
             ELSE ScanTeams(Tail(teams), query_folded, stored,
                     IF /\ \/ Contains(team_name_folded, query_folded)
                           \/ Contains(query_folded, team_name_folded)
                        /\ (best_match = None \/ best_match[1] = 0)
                     THEN Some(team.id) ELSE best_match)

\* Mutant: the cache and the listing are tried before the number is read.
resolve_team_id_cache_first(team_name_or_id, cache, listing) ==
    LET truthy(x) == IF x # None /\ x[1] # 0 THEN x ELSE None
    IN
    With(IF team_name_or_id = None THEN "" ELSE Strip(team_name_or_id[1]),
         LAMBDA value :
    With(Lower(value), LAMBDA folded :
    With(_fold_text(value), LAMBDA query_folded :
        IF value = "" THEN [id |-> None, cache |-> cache, listed |-> FALSE]
        ELSE IF Get(cache, folded) # None
        THEN [id |-> Get(cache, folded), cache |-> cache, listed |-> FALSE]
        ELSE IF listing = None
        THEN [id |-> IF IsDigit(value) THEN Some(ParseInt(value)) ELSE None,
              cache |-> cache, listed |-> TRUE]
        ELSE With(ScanTeams(listing[1], query_folded, cache, None), LAMBDA scan :
             [id |-> IF IsDigit(value) THEN Some(ParseInt(value))
                     ELSE IF scan.exact # None THEN scan.exact
                     ELSE IF scan.best_match # None THEN scan.best_match
                     ELSE OrElse(truthy(Get(scan.cache, folded)),
                                 Get(scan.cache, query_folded)),
              cache |-> scan.cache, listed |-> TRUE]))))

\* ChatwootClient.resolve_team_id. listing is None when _list_teams raises,
\* else <<the teams listed>>. Gives the id found (None, or <<id>>), the
\* cache afterwards and whether the teams were listed.
resolve_team_id(team_name_or_id, cache, listing) ==
    LET truthy(x) == IF x # None /\ x[1] # 0 THEN x ELSE None
    IN
    With(IF team_name_or_id = None THEN "" ELSE Strip(team_name_or_id[1]),
         LAMBDA value :
    With(Lower(value), LAMBDA folded :
    With(_fold_text(value), LAMBDA query_folded :
        IF value = "" THEN [id |-> None, cache |-> cache, listed |-> FALSE]
        ELSE IF IsDigit(value)
        THEN [id |-> Some(ParseInt(value)), cache |-> cache, listed |-> FALSE]
        ELSE IF Get(cache, folded) # None
        THEN [id |-> Get(cache, folded), cache |-> cache, listed |-> FALSE]
        ELSE IF listing = None THEN [id |-> None, cache |-> cache, listed |-> TRUE]
        ELSE With(ScanTeams(listing[1], query_folded, cache, None), LAMBDA scan :
             [id |-> IF scan.exact # None THEN scan.exact
                     ELSE IF scan.best_match # None THEN scan.best_match
                     ELSE OrElse(truthy(Get(scan.cache, folded)),
                                 Get(scan.cache, query_folded)),
              cache |-> scan.cache, listed |-> TRUE]))))

\* MessageOrchestratorAgent._direct_answer
_direct_answer(message) ==
    IF normalize_text(message) \in
           {"oi", "ola", "olá", "bom dia", "boa tarde", "boa noite"}
    THEN "Olá! Posso ajudar com dúvidas acadêmicas e regulatórias. Qual sua pergunta?"
    ELSE "Entendi. Posso te ajudar com dúvidas sobre os documentos e regras acadêmicas."

(***************************************************************************)
(* Knowledge answering (src/Agente2.py)                                    *)
(***************************************************************************)

RESPONSE_CACHE_TTL_SECONDS == 300
RESPONSE_CACHE_MAX_ITEMS == 256

\* One run of the session's knowledge agent: it raises, or replies.
RunRaises(kind) == [raises |-> kind, content |-> ""]
RunReply(content) == [raises |-> "", content |-> content]

\* Message texts of the dispatches.
DispatchMessages ==
    {"Bom dia!", "bom dia", "Quero falar com um atendente humano",
     "equipe financeira", "quero ajuda da ia", "Qual a carga horária mínima?"}

\* Questions put to the response cache on its own: the first two are equal
\* after _normalize_question.
Questions == {"Art. 5", " art.  5", "Prazo?"}

\* re.sub(r"\s+", " ", question.strip().lower()), computed once for the
\* texts of the dispatches and the questions.
NormalizedQuestions ==
    [question \in DispatchMessages \cup Questions
        |-> CollapseSpaces(Lower(Strip(question)))] @@ <<>>

_normalize_question(question) ==
    IF question \in DOMAIN NormalizedQuestions THEN NormalizedQuestions[question]
    ELSE CollapseSpaces(Lower(Strip(question)))

_is_quick_smalltalk(question) ==
    LET q == _normalize_question(question)
    IN  /\ Len(q) <= 40
        /\ q \in {"oi", "ola", "olá", "bom dia", "boa tarde", "boa noite",
                  "tudo bem", "ok", "obrigado", "obrigada", "valeu"}

\* Mutant: the key leaves the session out.
CacheKey_without_session(session_id, question) == <<"", _normalize_question(question)>>

\* The response cache is the dict _response_cache in insertion order: a
\* sequence of entries [key, answer, ts] with distinct keys.
CacheKey(session_id, question) == <<session_id, _normalize_question(question)>>

Positions(cache, key) == {i \in DOMAIN cache : cache[i].key = key}

Without(cache, i) == SubSeq(cache, 1, i - 1) \o SubSeq(cache, i + 1, Len(cache))

\* Mutant: an entry as old as the TTL is expired.
_get_cached_answer_expiring_early(cache, now, session_id, question) ==
    With(Positions(cache, CacheKey(session_id, question)), LAMBDA at :
        IF at = {} THEN [answer |-> None, cache |-> cache]
        ELSE With(Min(at), LAMBDA i :
             IF (now - cache[i].ts) >= RESPONSE_CACHE_TTL_SECONDS
             THEN [answer |-> None, cache |-> Without(cache, i)]
             ELSE [answer |-> Some(cache[i].answer), cache |-> cache]))

\* RagSystem._get_cached_answer: the answer (None, or <<answer>>) and the
\* cache afterwards; an entry older than the TTL is removed on the way.
_get_cached_answer(cache, now, session_id, question) ==
    With(Positions(cache, CacheKey(session_id, question)), LAMBDA at :
        IF at = {} THEN [answer |-> None, cache |-> cache]
        ELSE With(Min(at), LAMBDA i :
             IF (now - cache[i].ts) > RESPONSE_CACHE_TTL_SECONDS
             THEN [answer |-> None, cache |-> Without(cache, i)]
             ELSE [answer |-> Some(cache[i].answer), cache |-> cache]))

\* Mutant: the entry of largest ts.
OldestPosition_newest(cache) ==
    Min({i \in DOMAIN cache : \A j \in DOMAIN cache : cache[i].ts >= cache[j].ts})

\* min(cache, key=ts): the first entry, in insertion order, of smallest ts.
OldestPosition(cache) ==
    Min({i \in DOMAIN cache : \A j \in DOMAIN cache : cache[i].ts <= cache[j].ts})

\* Mutant: an empty answer is stored like any other.
_cache_answer_storing_empty(cache, now, session_id, question, answer, max_items) ==
    With(IF Len(cache) >= max_items
         THEN Without(cache, OldestPosition(cache)) ELSE cache, LAMBDA kept :
    With(CacheKey(session_id, question), LAMBDA key :
    With(Positions(kept, key), LAMBDA at :
        IF at = {} THEN Append(kept, [key |-> key, answer |-> answer, ts |-> now])
        ELSE [kept EXCEPT ![Min(at)] = [key |-> key, answer |-> answer, ts |-> now]])))

\* Mutant: an entry is evicted only once the cache is over max_items.
_cache_answer_evicting_late(cache, now, session_id, question, answer, max_items) ==
    With(IF Len(cache) > max_items
         THEN Without(cache, OldestPosition(cache)) ELSE cache, LAMBDA kept :
    With(CacheKey(session_id, question), LAMBDA key :
    With(Positions(kept, key), LAMBDA at :
        IF answer = "" THEN cache
        ELSE IF at = {} THEN Append(kept, [key |-> key, answer |-> answer, ts |-> now])
        ELSE [kept EXCEPT ![Min(at)] = [key |-> key, answer |-> answer, ts |-> now]])))

\* RagSystem._cache_answer with RESPONSE_CACHE_MAX_ITEMS = max_items >= 1.
_cache_answer(cache, now, session_id, question, answer, max_items) ==
    With(IF Len(cache) >= max_items
         THEN Without(cache, OldestPosition(cache)) ELSE cache, LAMBDA kept :
    With(CacheKey(session_id, question), LAMBDA key :
    With(Positions(kept, key), LAMBDA at :
        IF answer = "" THEN cache
        ELSE IF at = {} THEN Append(kept, [key |-> key, answer |-> answer, ts |-> now])
        ELSE [kept EXCEPT ![Min(at)] = [key |-> key, answer |-> answer, ts |-> now]])))

\* Mutant: ask never looks an answer up and runs the agent every time.
ask_without_lookup(question, session_id, cache, now, run, max_items) ==
    With(IF run.content # "" THEN run.content
         ELSE "Não foi possível gerar uma resposta.", LAMBDA answer :
        IF _is_quick_smalltalk(question)
        THEN [raises |-> "", ran |-> FALSE, cache |-> cache,
              answer |-> "Olá! Posso te ajudar com dúvidas sobre os documentos internos. Me diga sua pergunta."]
        ELSE IF run.raises # ""
        THEN [raises |-> run.raises, ran |-> TRUE, cache |-> cache, answer |-> ""]
        ELSE [raises |-> "", ran |-> TRUE, answer |-> answer,
              cache |-> _cache_answer(cache, now, session_id, question,
                                      answer, max_items)])

\* RagSystem.ask on the chat channel. Gives the exception raised ("" when
\* none), the answer, the cache afterwards and whether the agent was run.
ask(question, session_id, cache, now, run, max_items) ==
    With(_get_cached_answer(cache, now, session_id, question), LAMBDA got :
    With(IF run.content # "" THEN run.content
         ELSE "Não foi possível gerar uma resposta.", LAMBDA answer :
        IF _is_quick_smalltalk(question)
        THEN [raises |-> "", ran |-> FALSE, cache |-> cache,
              answer |-> "Olá! Posso te ajudar com dúvidas sobre os documentos internos. Me diga sua pergunta."]
        ELSE IF got.answer # None /\ got.answer[1] # ""
        THEN [raises |-> "", ran |-> FALSE, cache |-> got.cache,
              answer |-> got.answer[1]]
        ELSE IF run.raises # ""
        THEN [raises |-> run.raises, ran |-> TRUE, cache |-> got.cache, answer |-> ""]
        ELSE [raises |-> "", ran |-> TRUE, answer |-> answer,
              cache |-> _cache_answer(got.cache, now, session_id, question,
                                      answer, max_items)]))

SpecialistResult(answer, confidence) == [answer |-> answer, confidence |-> confidence]

\* Confidences are held in hundredths: 0.8 is 80, 0.5 is 50.
HeuristicConfidence(response) == IF response # "" /\ Len(response) > 20 THEN 80 ELSE 50

\* MecSpecialistAgent.answer over the rag object it was built with. The
\* ask of src/Agente.py's RagSystem takes (question, session_id) only, so
\* the three-argument call raises TypeError before anything else happens.
MecSpecialistAgent_answer(question, session_id, rag, cache, now, run, max_items) ==
    With(ask(question, session_id, cache, now, run, max_items), LAMBDA asked :
        IF rag = "Agente.RagSystem"
        THEN [raises |-> "TypeError", ran |-> FALSE, cache |-> cache, result |-> None]
        ELSE IF asked.raises # ""
        THEN [raises |-> asked.raises, ran |-> asked.ran, cache |-> asked.cache,
              result |-> None]
        ELSE [raises |-> "", ran |-> asked.ran, cache |-> asked.cache,
              result |-> Some(SpecialistResult(asked.answer,
                                               HeuristicConfidence(asked.answer)))])

\* Mutant: the threshold itself counts as low confidence.
high_confidence_strict(confidence, threshold) == confidence > threshold

\* specialist_result.confidence >= ORCHESTRATOR_CONFIDENCE_THRESHOLD
high_confidence(confidence, threshold) == confidence >= threshold

(***************************************************************************)
(* Inputs                                                                  *)
(***************************************************************************)

\* Inbound message texts as the webhook hands them to the orchestrator.
Messages ==
    {"Bom dia!", "bom dia", "  Olá  ", "OK", "Obrigado pela ajuda!",
     "Quero falar com um atendente humano", "Quero falar com o SUPORTE",
     "quero falar com o suporte", "atendente", "atendénte", "ATENDENTE",
     "transferir sentimento", "me encaminha pro time", "equipe financeira",
     "humano ou ia", "A IA pode falar com o humano?",
     "quero ajuda da ia", "Voltar para IA", "falar com a ia",
     "inteligência artificial", "INTELIGENCIA ARTIFICIAL",
     "Qual a carga horária mínima?", "preciso do regimento", "Resolução",
     "qual o horário", "dia"}

\* Labels a conversation may carry: the managed ones and two applied by others.
ExternalLabels == {"vip", "urgente"}
Labels == _managed_labels \cup ExternalLabels

\* Values of the TEAM setting after parse_csv.
TeamConfigs == {<<>>, <<"Suporte", "Financeiro", "Jurídico">>}

\* Outcomes of one run of the classifier agent.
LlmOutcomes ==
    {LlmRaises} \cup
    {LlmReply(c) : c \in {"HUMAN", "HUMAN:financeiro", "Human: Suporte",
                          "HUMAN:vendas", "HUMAN: Jurídico", " DIRECT.", "MEC",
                          "Rota: mec", "Não sei", "",
                          "MEC, não DIRECT", "Recomece a pergunta"}}

\* Outcomes of the classifier agent during a dispatch.
DispatchLlmOutcomes ==
    {LlmRaises, LlmReply("HUMAN:financeiro"), LlmReply("DIRECT"), LlmReply("MEC")}

\* Outcomes of one run of the knowledge agent: an error of the model
\* provider, an HTTP status error, a short and a long answer.
RunOutcomes ==
    {RunRaises("Exception"), RunRaises("HTTPStatusError"),
     RunReply("Art. 5º"), RunReply("A carga horária mínima é de 3.200 horas.")}

\* The teams of the account as GET /teams lists them.
PlatformTeams ==
    <<[id |-> 1, name |-> "Suporte"], [id |-> 2, name |-> "Financeiro"],
      [id |-> 3, name |-> "Jurídico"]>>

\* What _list_teams gives: it raises (None) or lists the teams.
Listings == {None, Some(PlatformTeams)}

\* The service as lifespan leaves it: whether the fallback classifier
\* exists, TEAM, CHATWOOT_HUMAN_TEAM_ID (unset, or a numeric id),
\* ORCHESTRATOR_CONFIDENCE_THRESHOLD in hundredths, the class of the rag
\* object the specialist is built with (lifespan passes src/Agente.py's
\* RagSystem, the specialist's own module defines and expects
\* src/Agente2.py's) and whether the team listing at startup succeeded.
Deployment(classifier, teams, team_id, threshold, rag, preloaded) ==
    [classifier_agent |-> classifier, active_teams |-> teams,
     human_team_id |-> team_id, threshold |-> threshold, rag |-> rag,
     teams_preloaded |-> preloaded]

ActiveTeams == <<"Suporte", "Financeiro", "Jurídico">>

Deployments ==
    {Deployment(FALSE, <<>>, "", 70, "Agente2.RagSystem", FALSE),
     Deployment(FALSE, <<>>, "7", 80, "Agente2.RagSystem", FALSE),
     Deployment(FALSE, ActiveTeams, "", 70, "Agente2.RagSystem", TRUE),
     Deployment(TRUE, ActiveTeams, "", 80, "Agente2.RagSystem", TRUE),
     Deployment(TRUE, ActiveTeams, "7", 70, "Agente2.RagSystem", FALSE),
     Deployment(FALSE, ActiveTeams, "", 70, "Agente.RagSystem", TRUE),
     Deployment(TRUE, <<>>, "", 80, "Agente.RagSystem", FALSE)}

\* Outcomes of a request to the platform: success, a response of status
\* 400 or more, no response at all.
Outcomes == {"ok", "status_error", "transport_error"}

\* Dispatches and clock steps explored.
MaxDispatches == 2
MaxTicks == 1

\* Requests to the platform that do not succeed.
MaxFailures == 1

\* Messages of a human request: with no team in them, naming a team in
\* several forms, with a keyword of a team, with a generic mention of a team
\* and with none of these but the letters of one.
TeamMessages ==
    {"Quero falar com um atendente humano", "atendente", "equipe financeira",
     "Quero falar com o SUPORTE", "falar com o jurídico", "I need support",
     "me encaminha pro time", "transferir sentimento", "atendente do mec",
     "qual o horário"}

\* Values of the TEAM setting after parse_csv: none, the three teams, the
\* support team not first, no support team, teams named by two words.
TeamSettings ==
    {<<>>, <<"Suporte", "Financeiro", "Jurídico">>, <<"Financeiro", "Suporte">>,
     <<"Financeiro", "Jurídico">>, <<"Setor Financeiro", "Suporte Geral">>,
     <<"Suporte Geral", "Suporte">>}

\* Outcomes of the classifier agent where a team is to be chosen.
TeamLlmOutcomes ==
    {LlmRaises, LlmReply("HUMAN"), LlmReply("HUMAN:financeiro"),
     LlmReply("HUMAN:vendas")}

\* The texts that occur in states. A text held in a state is only compared
\* with others; where its characters are read, they are read from the text
\* as it is written here.
KnownTexts ==
    Messages \cup DispatchMessages
    \cup {c.content : c \in LlmOutcomes \cup DispatchLlmOutcomes}
    \cup {ActiveTeams[n] : n \in DOMAIN ActiveTeams}
    \cup {PlatformTeams[n].name : n \in DOMAIN PlatformTeams}
    \cup UNION {ToSet(ExtractTeam(normalize_text(Strip(c.content)))) :
                   c \in LlmOutcomes \cup DispatchLlmOutcomes}
    \cup {"7", "", TEAM_DEFAULT_HUMAN}
    \cup TeamMessages \cup UNION {ToSet(teams) : teams \in TeamSettings}

Canon(text) == CHOOSE known \in KnownTexts : known = text

CanonList(list) == [n \in DOMAIN list |-> Canon(list[n])]

CanonOptional(value) == IF value = None THEN None ELSE Some(Canon(value[1]))

(***************************************************************************)
(* State                                                                   *)
(***************************************************************************)

VARIABLES
    \* classify_intent applied to drawn inputs
    in_message,       \* message
    in_labels,        \* current_labels
    in_agent,         \* self._classifier_agent is set
    in_teams,         \* self._active_teams
    in_llm,           \* what the classifier agent's run produces
    in_target,        \* target_labels of _compose_state_labels
    out_decision,     \* None, or <<the IntentDecision returned>>
    out_llm_calls,    \* number of runs of the classifier agent
    out_labels,       \* None, or <<the label set composed>>
    \* the service: configuration
    _classifier_agent,                  \* the fallback classifier exists
    _active_teams,                      \* team names of the orchestrator
    CHATWOOT_HUMAN_TEAM_ID,
    ORCHESTRATOR_CONFIDENCE_THRESHOLD,  \* in hundredths
    rag_system,                         \* class of the specialist's rag
    \* the service: what outlives a dispatch
    platform_labels,  \* labels of the conversation on the platform
    first_reply_created,  \* an outgoing message exists (first_reply_created)
    _team_cache,      \* ChatwootClient._team_cache
    _response_cache,  \* RagSystem._response_cache
    clock,            \* time.time()
    ticks,            \* clock steps taken
    dispatches,       \* dispatches started
    failures,         \* requests to the platform that did not succeed
    \* the dispatch in progress (process_and_reply)
    pc,               \* the call it is about to make
    msg_content,
    force_ia_label,
    label_set,        \* set(current_labels), the snapshot of the event
    decision,         \* None, or <<IntentDecision>>
    orchestrator_ts,
    selected_human_team,
    resolved_human_team_id,
    specialist_result,
    agent_ran,        \* the knowledge agent was run
    error,            \* None, or <<the exception that left handle_incoming>>
    calls,            \* requests made to the platform, in order
    \* the webhook (chatwoot_webhook)
    _processed_message_ids,  \* message id -> time it was recorded
    in_flight,        \* deliveries awaiting their body (await request.json())
    handled,          \* deliveries answered, in order, with what was done
    background_tasks, \* process_and_reply tasks added, in order
    deliveries,       \* deliveries received
    \* the response cache called directly
    cache_call,       \* None, or <<the last call and what it returned>>
    stored_answers,   \* <<session, question key, answer>> given to _cache_answer
    cache_calls,      \* calls made
    \* worker threads (asyncio.to_thread) and OrquestradorHF
    threads,          \* thread -> where it is in its call, and its locals
    _lock,            \* None, or <<the thread holding OrquestradorHF._lock>>
    _model,           \* OrquestradorHF._model: None, or <<the model>>
    _embeddings,      \* OrquestradorHF._embeddings: intent -> embeddings
    loads,            \* times the model and the embeddings were loaded
    \* one conversation over several messages
    conversation,     \* its messages in order of arrival, with what was done
    \* RagSystem.ask called again and again
    asks              \* the calls made, in order, with what each returned

fn_vars == <<in_message, in_labels, in_agent, in_teams, in_llm, in_target,
             out_decision, out_llm_calls, out_labels>>

config_vars == <<_classifier_agent, _active_teams, CHATWOOT_HUMAN_TEAM_ID,
                 ORCHESTRATOR_CONFIDENCE_THRESHOLD, rag_system>>

service_vars == <<platform_labels, first_reply_created, _team_cache,
                  _response_cache, clock, ticks, dispatches, failures>>

dispatch_vars == <<pc, msg_content, force_ia_label, label_set, decision,
                   orchestrator_ts, selected_human_team, resolved_human_team_id,
                   specialist_result, agent_ran, error, calls>>

webhook_vars == <<_processed_message_ids, in_flight, handled,
                  background_tasks, deliveries>>

probe_vars == <<cache_call, stored_answers, cache_calls>>

thread_vars == <<threads, _lock, _model, _embeddings, loads>>

conversation_vars == <<conversation>>

ask_vars == <<asks>>

vars == <<fn_vars, config_vars, thread_vars, conversation_vars, ask_vars, service_vars, dispatch_vars, webhook_vars,
          probe_vars>>

\* No dispatch in progress.
NoDispatch ==
    /\ msg_content = ""
    /\ force_ia_label = FALSE
    /\ label_set = {}
    /\ decision = None
    /\ orchestrator_ts = 0
    /\ selected_human_team = None
    /\ resolved_human_team_id = None
    /\ specialist_result = None
    /\ agent_ran = FALSE
    /\ error = None
    /\ calls = <<>>

\* The service is not part of the specification: it never runs.
ServiceOff ==
    /\ _classifier_agent = FALSE
    /\ _active_teams = <<>>
    /\ CHATWOOT_HUMAN_TEAM_ID = ""
    /\ ORCHESTRATOR_CONFIDENCE_THRESHOLD = 0
    /\ rag_system = ""
    /\ platform_labels = {}
    /\ first_reply_created = FALSE
    /\ failures = 0
    /\ _team_cache = EmptyDict
    /\ _response_cache = <<>>
    /\ clock = 0
    /\ ticks = 0
    /\ dispatches = 0
    /\ pc = "off"
    /\ NoDispatch

\* No webhook delivery arrives.
WebhookOff ==
    /\ _processed_message_ids = EmptyDict
    /\ in_flight = {}
    /\ handled = <<>>
    /\ background_tasks = <<>>
    /\ deliveries = 0

\* No conversation is followed.
ConversationOff == conversation = <<>>

\* RagSystem.ask has not been called.
AsksOff == asks = <<>>

\* No worker thread runs.
ThreadsOff ==
    /\ threads = <<>>
    /\ _lock = None
    /\ _model = None
    /\ _embeddings = <<>>
    /\ loads = 0

\* The response cache is called by the service only.
ProbeOff ==
    /\ cache_call = None
    /\ stored_answers = {}
    /\ cache_calls = 0

\* No function is applied to drawn inputs.
FunctionsOff ==
    /\ in_message = ""
    /\ in_labels = {}
    /\ in_agent = FALSE
    /\ in_teams = <<>>
    /\ in_llm = LlmRaises
    /\ in_target = {}
    /\ out_decision = None
    /\ out_llm_calls = 0
    /\ out_labels = None

(***************************************************************************)
(* SpecClassify: classify_intent on every drawn message, label set,        *)
(* configuration and fallback outcome                                      *)
(***************************************************************************)

ClassifyLabelSets ==
    SUBSET {CHATWOOT_LABEL_HUMANO, CHATWOOT_LABEL_IA_FALHA, "vip"}

InitClassify ==
    /\ ServiceOff /\ WebhookOff /\ ProbeOff /\ ThreadsOff /\ ConversationOff /\ AsksOff
    /\ in_message \in Messages
    /\ in_labels \in ClassifyLabelSets
    /\ in_agent \in BOOLEAN
    /\ in_teams \in TeamConfigs
    /\ in_llm \in (IF in_agent THEN LlmOutcomes ELSE {LlmRaises})
    /\ in_target = {}
    /\ out_decision = None
    /\ out_llm_calls = 0
    /\ out_labels = None

\* The drawn inputs of classify_intent.
InMessage == Canon(in_message)
InTeams == CanonList(in_teams)
InLlm == [raises |-> in_llm.raises, content |-> Canon(in_llm.content)]

Classify ==
    /\ out_decision = None
    /\ LET run == classify_intent_run(InMessage, in_labels, in_agent,
                                      InTeams, InLlm)
       IN  /\ out_decision' = Some(run.decision)
           /\ out_llm_calls' = out_llm_calls + (IF run.llm_called THEN 1 ELSE 0)
    /\ UNCHANGED <<in_message, in_labels, in_agent, in_teams, in_llm,
                   in_target, out_labels, config_vars, thread_vars, conversation_vars, ask_vars, webhook_vars,
                   probe_vars, service_vars,
                   dispatch_vars>>

NextClassify == Classify

SpecClassify == InitClassify /\ [][NextClassify]_vars

(***************************************************************************)
(* SpecLabels: _compose_state_labels on every label snapshot and target    *)
(***************************************************************************)

InitLabels ==
    /\ ServiceOff /\ WebhookOff /\ ProbeOff /\ ThreadsOff /\ ConversationOff /\ AsksOff
    /\ in_message = ""
    /\ in_labels \in SUBSET Labels
    /\ in_agent = FALSE
    /\ in_teams = <<>>
    /\ in_llm = LlmRaises
    /\ in_target \in SUBSET _managed_labels
    /\ out_decision = None
    /\ out_llm_calls = 0
    /\ out_labels = None

Compose ==
    /\ out_labels = None
    /\ out_labels' = Some(_compose_state_labels(in_labels, in_target))
    /\ UNCHANGED <<in_message, in_labels, in_agent, in_teams, in_llm,
                   in_target, out_decision, out_llm_calls, config_vars, thread_vars, conversation_vars, ask_vars,
                   webhook_vars, probe_vars,
                   service_vars, dispatch_vars>>

NextLabels == Compose

SpecLabels == InitLabels /\ [][NextLabels]_vars

(***************************************************************************)
(* Spec: the service handling the messages of one conversation, one        *)
(* dispatch (process_and_reply) at a time                                  *)
(***************************************************************************)

\* The platform client is the class of src/ChatwootClient.py, the one that
\* has every method handle_incoming calls (resolve_team_id, assign_team).
session_id == "chatwoot_1"

HumanConfirmationMessage ==
    "Entendido. Vou encaminhar seu atendimento para o time humano."
LowConfidenceMessage ==
    "Não encontrei segurança suficiente para responder com precisão. Vou encaminhar para um especialista humano."
\* (the text follows a warning sign the lexer of TLA+ cannot read)
ApologyMessage ==
    "Desculpe, ocorreu um erro ao processar sua mensagem. Por favor, tente novamente."

\* The team cache after lifespan has listed the teams of the account.
PreloadedTeamCache ==
    ScanTeams(PlatformTeams, "", EmptyDict, None).cache

Init ==
    /\ FunctionsOff /\ WebhookOff /\ ProbeOff /\ ThreadsOff /\ ConversationOff /\ AsksOff
    /\ \E d \in Deployments :
           /\ _classifier_agent = d.classifier_agent
           /\ _active_teams = d.active_teams
           /\ CHATWOOT_HUMAN_TEAM_ID = d.human_team_id
           /\ ORCHESTRATOR_CONFIDENCE_THRESHOLD = d.threshold
           /\ rag_system = d.rag
           /\ _team_cache = IF d.teams_preloaded THEN PreloadedTeamCache
                            ELSE EmptyDict
    /\ platform_labels \in SUBSET {"vip"}
    /\ first_reply_created = FALSE
    /\ failures = 0
    /\ _response_cache = <<>>
    /\ clock = 0
    /\ ticks = 0
    /\ dispatches = 0
    /\ pc = "idle"
    /\ NoDispatch

\* One request to the platform, as the client was asked to make it, and how
\* it ended. Arguments a method does not take are "", <<>>, None, FALSE.
Call(method, text, labels, custom_attributes, team_id, clear_assignment, outcome) ==
    [method |-> method, content |-> text, labels |-> labels,
     custom_attributes |-> custom_attributes, team_id |-> team_id,
     clear_assignment |-> clear_assignment, outcome |-> outcome]

\* The request is logged with its outcome; failures stay within the bound.
Request(call) ==
    /\ call.outcome = "ok" \/ failures < MaxFailures
    /\ calls' = Append(calls, call)
    /\ failures' = failures + (IF call.outcome = "ok" THEN 0 ELSE 1)
    /\ first_reply_created' =
           (first_reply_created
            \/ (call.method = "send_message" /\ call.outcome = "ok"))

\* The exception a request that does not succeed ends in.
Raised(outcome) ==
    IF outcome = "status_error" THEN "HTTPStatusError" ELSE "ConnectError"

\* The branch of handle_incoming the dispatch is on.
Branch ==
    IF decision = None THEN ""
    ELSE IF decision[1].route = "human" THEN "human"
    ELSE IF decision[1].route = "direct" THEN "direct"
    ELSE IF specialist_result = None THEN "mec"
    ELSE IF high_confidence(specialist_result[1].confidence,
                            ORCHESTRATOR_CONFIDENCE_THRESHOLD)
         THEN "mec_high" ELSE "mec_low"

\* Mutant: an absent id counts as a team.
Truthy_absent_included(id) == id = None \/ id[1] # 0

\* if resolved_human_team_id: (an id of 0 is falsy)
Truthy(id) == id # None /\ id[1] # 0

\* Mutant: the confidence of the branch is left out of the attributes.
custom_attrs_without_confidence(handled_by, confidence) ==
    [orchestrator_route |-> decision[1].route,
     orchestrator_reason |-> decision[1].reason,
     orchestrator_ts |-> orchestrator_ts,
     first_interaction |-> force_ia_label,
     handled_by |-> handled_by,
     orchestrator_confidence |-> 0]

\* custom_attrs with the two entries each branch adds; confidences in
\* hundredths.
custom_attrs(handled_by, confidence) ==
    [orchestrator_route |-> decision[1].route,
     orchestrator_reason |-> decision[1].reason,
     orchestrator_ts |-> orchestrator_ts,
     first_interaction |-> force_ia_label,
     handled_by |-> handled_by,
     orchestrator_confidence |-> confidence]

\* Mutant: the conversation is reopened right after the reply.
Proceed_reopening_early(raises, next) ==
    IF raises = "" \/ Branch = "human"
    THEN /\ pc' = (IF next = "set_labels" THEN "set_conversation_open" ELSE next)
         /\ error' = error
    ELSE pc' = "except" /\ error' = Some(raises)

\* After a request: a failure inside handle_incoming is caught on the human
\* route and leaves handle_incoming on the others.
Proceed(raises, next) ==
    IF raises = "" \/ Branch = "human"
    THEN pc' = next /\ error' = error
    ELSE pc' = "except" /\ error' = Some(raises)

\* classify_intent, _pick_human_team and _direct_answer on the inputs of
\* the dispatches, computed once (@@ makes the table an explicit one).
ClassifierSetups ==
    {<<d.classifier_agent, d.active_teams,
       IF d.classifier_agent THEN DispatchLlmOutcomes ELSE {LlmRaises}>> :
         d \in Deployments}

DispatchDecisions ==
    [x \in UNION {DispatchMessages \X (SUBSET (_managed_labels \cup {"vip"}))
                     \X {c[1]} \X {c[2]} \X c[3] : c \in ClassifierSetups} |->
        classify_intent(x[1], x[2], x[3], x[4], x[5])] @@ <<>>

DispatchTeams ==
    [x \in DispatchMessages
            \X {<<d.active_teams, d.human_team_id>> : d \in Deployments} |->
        _pick_human_team(x[1], x[2][1], x[2][2])] @@ <<>>

DirectAnswers ==
    [message \in DispatchMessages |-> _direct_answer(message)] @@ <<>>

\* What a request to the platform leaves as it is, the labels of the
\* conversation apart.
request_frame ==
    <<fn_vars, config_vars, thread_vars, conversation_vars, ask_vars, webhook_vars, probe_vars, _team_cache,
      _response_cache, clock, ticks,
      dispatches, msg_content, force_ia_label, label_set, decision,
      orchestrator_ts, selected_human_team, resolved_human_team_id,
      specialist_result, agent_ran>>

\* The webhook hands the message, the labels of the conversation and
\* whether it still waits for its first reply to process_and_reply, which
\* calls handle_incoming: lines 642-653.
Start(message, llm) ==
    /\ pc = "idle"
    /\ dispatches < MaxDispatches
    /\ dispatches' = dispatches + 1
    /\ msg_content' = message
    /\ force_ia_label' = ~first_reply_created
    /\ label_set' = platform_labels
    /\ \E d \in {DispatchDecisions[<<message, platform_labels, _classifier_agent,
                                        _active_teams, llm>>]} :
           /\ decision' = Some(d)
           /\ selected_human_team' =
                  IF d.requested_team # None /\ d.requested_team[1] # ""
                  THEN d.requested_team
                  ELSE DispatchTeams[<<message, <<_active_teams,
                                                 CHATWOOT_HUMAN_TEAM_ID>>>>]
    /\ orchestrator_ts' = clock
    /\ pc' = "resolve_team_id"
    /\ UNCHANGED <<fn_vars, config_vars, thread_vars, conversation_vars, ask_vars, webhook_vars, probe_vars,
                   platform_labels,
                   first_reply_created, _team_cache, _response_cache, clock,
                   ticks, failures, resolved_human_team_id, specialist_result,
                   agent_ran, error, calls>>

\* Mutant: the human route confirms the transfer whatever the reason.
ConfirmsTransfer_every_reason(reason) == reason = reason

\* Mutant: the human route confirms the transfer for the reasons that are
\* requests of the customer, the request of an assistant included.
ConfirmsTransfer_any_request(reason) ==
    reason \in {"explicit_human_request", "explicit_ai_request",
                "llm_classifier"}

\* Line 666: if decision.reason == "explicit_human_request".
ConfirmsTransfer(reason) == reason = "explicit_human_request"

\* Lines 654-656, and the choice of the branch.
ResolveTeam(listing) ==
    /\ pc = "resolve_team_id"
    /\ \E r \in {resolve_team_id(CanonOptional(selected_human_team), _team_cache,
                                    listing)} :
           /\ r.listed \/ listing = None
           /\ _team_cache' = r.cache
           /\ resolved_human_team_id' =
                  IF r.id = None /\ CHATWOOT_HUMAN_TEAM_ID # ""
                  THEN Some(ParseInt(CHATWOOT_HUMAN_TEAM_ID)) ELSE r.id
    /\ pc' = IF Branch = "human"
             THEN (IF ConfirmsTransfer(decision[1].reason)
                   THEN "send_message" ELSE "set_labels")
             ELSE IF Branch = "direct" THEN "send_message"
             ELSE "answer"
    /\ UNCHANGED <<fn_vars, config_vars, thread_vars, conversation_vars, ask_vars, webhook_vars, probe_vars,
                   platform_labels,
                   first_reply_created, _response_cache, clock, ticks,
                   dispatches, failures, msg_content, force_ia_label,
                   label_set, decision, orchestrator_ts, selected_human_team,
                   specialist_result, agent_ran, error, calls>>

\* Line 735: specialist.answer(content, session_id).
Answer(run) ==
    /\ pc = "answer"
    /\ \E a \in {MecSpecialistAgent_answer(msg_content, session_id, rag_system,
                        _response_cache, clock, run, RESPONSE_CACHE_MAX_ITEMS)} :
           /\ a.ran \/ run = RunRaises("Exception")
           /\ _response_cache' = a.cache
           /\ agent_ran' = a.ran
           /\ specialist_result' = a.result
           /\ IF a.raises = ""
              THEN pc' = "send_message" /\ error' = error
              ELSE pc' = "except" /\ error' = Some(a.raises)
    /\ UNCHANGED <<fn_vars, config_vars, thread_vars, conversation_vars, ask_vars, webhook_vars, probe_vars,
                   platform_labels,
                   first_reply_created, _team_cache, clock, ticks,
                   dispatches, failures, msg_content, force_ia_label,
                   label_set, decision, orchestrator_ts, selected_human_team,
                   resolved_human_team_id, calls>>

\* chatwoot.send_message of the branch; it raises unless it succeeds.
SendMessage(outcome) ==
    /\ pc = "send_message"
    /\ LET text == CASE Branch = "human" -> HumanConfirmationMessage
                     [] Branch = "direct" -> DirectAnswers[msg_content]
                     [] Branch = "mec_high" -> specialist_result[1].answer
                     [] Branch = "mec_low" -> LowConfidenceMessage
       IN  Request(Call("send_message", text, <<>>, None, None, FALSE, outcome))
    /\ Proceed(IF outcome = "ok" THEN "" ELSE Raised(outcome), "set_labels")
    /\ UNCHANGED <<request_frame, platform_labels>>

\* Mutant: the escalation writes the failure label alone.
TargetLabels_failure_alone ==
    CASE Branch = "human" -> {CHATWOOT_LABEL_HUMANO}
      [] Branch = "direct" -> {CHATWOOT_LABEL_IA_ORQUESTRADOR}
      [] Branch = "mec_high" -> {CHATWOOT_LABEL_IA_MEC}
      [] Branch = "mec_low" -> {CHATWOOT_LABEL_IA_FALHA}

\* The managed labels of the branch.
TargetLabels ==
    CASE Branch = "human" -> {CHATWOOT_LABEL_HUMANO}
      [] Branch = "direct" -> {CHATWOOT_LABEL_IA_ORQUESTRADOR}
      [] Branch = "mec_high" -> {CHATWOOT_LABEL_IA_MEC}
      [] Branch = "mec_low" -> {CHATWOOT_LABEL_HUMANO, CHATWOOT_LABEL_IA_FALHA}

\* chatwoot.set_labels with the composed list: it replaces the labels of
\* the conversation, returns an error object on a status of 400 or more
\* and raises only when no response comes.
SetLabels(outcome) ==
    /\ pc = "set_labels"
    /\ LET labels == _compose_state_labels(label_set, TargetLabels)
       IN  /\ Request(Call("set_labels", "", labels, None, None, FALSE, outcome))
           /\ platform_labels' = IF outcome = "ok" THEN ToSet(labels)
                                 ELSE platform_labels
    /\ Proceed(IF outcome = "transport_error" THEN Raised(outcome) ELSE "",
               "update_conversation_meta")
    /\ UNCHANGED request_frame

\* chatwoot.update_conversation_meta of the branch; the team id goes into
\* the payload only when truthy; it raises unless it succeeds.
UpdateMeta(outcome) ==
    /\ pc = "update_conversation_meta"
    /\ LET attrs ==
               CASE Branch = "human" -> custom_attrs("human_team", 0)
                 [] Branch = "direct" -> custom_attrs("agent_1_orchestrator", 95)
                 [] Branch = "mec_high" ->
                      custom_attrs("agent_2_mec", specialist_result[1].confidence)
                 [] Branch = "mec_low" ->
                      custom_attrs("human_team_after_low_confidence",
                                   specialist_result[1].confidence)
           team_id == IF Branch = "mec_low" /\ Truthy(resolved_human_team_id)
                      THEN resolved_human_team_id ELSE None
       IN  Request(Call("update_conversation_meta", "", <<>>, Some(attrs),
                        team_id, Branch \in {"direct", "mec_high"}, outcome))
    /\ Proceed(IF outcome = "ok" THEN "" ELSE Raised(outcome),
               IF Branch = "human" /\ Truthy(resolved_human_team_id)
               THEN "assign_team" ELSE "set_conversation_open")
    /\ UNCHANGED <<request_frame, platform_labels>>

\* chatwoot.assign_team, on the human route with a team id: an error object
\* on a status of 400 or more, an exception only when no response comes.
AssignTeam(outcome) ==
    /\ pc = "assign_team"
    /\ Request(Call("assign_team", "", <<>>, None, resolved_human_team_id,
                    FALSE, outcome))
    /\ Proceed(IF outcome = "transport_error" THEN Raised(outcome) ELSE "",
               "set_conversation_open")
    /\ UNCHANGED <<request_frame, platform_labels>>

\* chatwoot.set_conversation_open, the last call of every branch.
SetOpen(outcome) ==
    /\ pc = "set_conversation_open"
    /\ Request(Call("set_conversation_open", "", <<>>, None, None, FALSE,
                    outcome))
    /\ Proceed(IF outcome = "ok" THEN "" ELSE Raised(outcome), "done")
    /\ UNCHANGED <<request_frame, platform_labels>>

\* process_and_reply, except httpx.HTTPStatusError: the error is logged.
LogHttpError ==
    /\ pc = "except"
    /\ error = Some("HTTPStatusError")
    /\ pc' = "done"
    /\ UNCHANGED <<request_frame, platform_labels, first_reply_created,
                   failures, error, calls>>

\* process_and_reply, except Exception: one apology is attempted, and a
\* failure of it is swallowed.
Apologize(outcome) ==
    /\ pc = "except"
    /\ error # Some("HTTPStatusError")
    /\ Request(Call("send_message", ApologyMessage, <<>>, None, None, FALSE,
                    outcome))
    /\ pc' = "done"
    /\ UNCHANGED <<request_frame, platform_labels, error>>

\* process_and_reply returns; nothing of the dispatch remains.
Return ==
    /\ pc = "done"
    /\ pc' = "idle"
    /\ msg_content' = ""
    /\ force_ia_label' = FALSE
    /\ label_set' = {}
    /\ decision' = None
    /\ orchestrator_ts' = 0
    /\ selected_human_team' = None
    /\ resolved_human_team_id' = None
    /\ specialist_result' = None
    /\ agent_ran' = FALSE
    /\ error' = None
    /\ calls' = <<>>
    /\ UNCHANGED <<fn_vars, config_vars, thread_vars, conversation_vars, ask_vars, webhook_vars, probe_vars, service_vars>>

\* Time passes between two dispatches, by more than the cache TTL.
Tick ==
    /\ pc = "idle"
    /\ dispatches > 0
    /\ ticks < MaxTicks
    /\ ticks' = ticks + 1
    /\ clock' = clock + RESPONSE_CACHE_TTL_SECONDS + 1
    /\ UNCHANGED <<fn_vars, config_vars, thread_vars, conversation_vars, ask_vars, webhook_vars, probe_vars,
                   platform_labels,
                   first_reply_created, _team_cache, _response_cache,
                   dispatches, failures, dispatch_vars>>

Next ==
    \/ \E message \in DispatchMessages,
          llm \in (IF _classifier_agent THEN DispatchLlmOutcomes ELSE {LlmRaises}) :
           Start(message, llm)
    \/ \E listing \in Listings : ResolveTeam(listing)
    \/ \E run \in RunOutcomes : Answer(run)
    \/ \E outcome \in Outcomes : SendMessage(outcome)
    \/ \E outcome \in Outcomes : SetLabels(outcome)
    \/ \E outcome \in Outcomes : UpdateMeta(outcome)
    \/ \E outcome \in Outcomes : AssignTeam(outcome)
    \/ \E outcome \in Outcomes : SetOpen(outcome)
    \/ LogHttpError
    \/ Apologize("ok")
    \/ Apologize("status_error")
    \/ Apologize("transport_error")
    \/ Return
    \/ Tick

Spec == Init /\ [][Next]_vars

(***************************************************************************)
(* SpecWebhook: chatwoot_webhook under deliveries that overlap. A delivery *)
(* is suspended once, at await request.json(); the rest of the handler     *)
(* runs without yielding, and the tasks it added run after its response.   *)
(***************************************************************************)

\* What a delivery carries: whether its token is accepted and its body is
\* JSON, the event, the message type, the private flag, the message id
\* (None, or <<id>>), the content after strip_html and whether a conversation
\* id is present.
Payload(token_ok, json_ok, event, message_type, private, id, text, conv) ==
    [token_ok |-> token_ok, json_ok |-> json_ok, event |-> event,
     message_type |-> message_type, private |-> private, id |-> id,
     content |-> text, conversation |-> conv]

Incoming(id, text, conv) ==
    Payload(TRUE, TRUE, "message_created", "incoming", FALSE, id, text, conv)

Payloads ==
    {Incoming(Some(1), "Bom dia", TRUE), Incoming(Some(2), "Bom dia", TRUE),
     Incoming(None, "Bom dia", TRUE), Incoming(Some(1), "", TRUE),
     Incoming(Some(1), "Bom dia", FALSE),
     Payload(TRUE, TRUE, "message_created", "outgoing", FALSE, Some(1), "Bom dia", TRUE),
     Payload(TRUE, TRUE, "message_created", "incoming", TRUE, Some(1), "Bom dia", TRUE),
     Payload(TRUE, TRUE, "conversation_updated", "", FALSE, Some(1), "", TRUE),
     Payload(FALSE, TRUE, "message_created", "incoming", FALSE, Some(1), "Bom dia", TRUE),
     Payload(TRUE, FALSE, "", "", FALSE, None, "", FALSE)}

\* Deliveries and clock steps explored.
MaxDeliveries == 3
MaxWebhookTicks == 2

\* Seconds the clock advances by in one step: the TTL itself, or one second.
ClockSteps == {RESPONSE_CACHE_TTL_SECONDS, 1}

\* Mutant: an entry as old as the TTL is purged.
Purged_at_ttl(ids, now) ==
    [id \in {x \in DOMAIN ids : ~((now - ids[x]) >= RESPONSE_CACHE_TTL_SECONDS)}
        |-> ids[id]]

\* Lines 974-977: the entries older than the TTL are removed.
Purged(ids, now) ==
    [id \in {x \in DOMAIN ids : ~((now - ids[x]) > RESPONSE_CACHE_TTL_SECONDS)}
        |-> ids[id]]

\* Mutant: the id is not recorded.
DedupCheck_not_recording(ids, now, message_id) ==
    [duplicate |-> message_id \in DOMAIN Purged(ids, now),
     ids |-> Purged(ids, now)]

\* Lines 973-981: purge, then the id is a duplicate if it is still recorded,
\* and is recorded with the current time if it is not.
DedupCheck(ids, now, message_id) ==
    IF message_id \in DOMAIN Purged(ids, now)
    THEN [duplicate |-> TRUE, ids |-> Purged(ids, now)]
    ELSE [duplicate |-> FALSE, ids |-> Put(Purged(ids, now), message_id, now)]

\* Mutant: private notes of the agents are dispatched too.
Dispatchable_private_included(payload) ==
    /\ payload.event = "message_created"
    /\ payload.message_type = "incoming"

\* Lines 967-971.
Dispatchable(payload) ==
    /\ payload.event = "message_created"
    /\ payload.message_type = "incoming"
    /\ ~payload.private

\* What the handler did with a delivery, and when.
Handled(n, payload, status, checked, duplicate, enqueued) ==
    [n |-> n, payload |-> payload, at |-> clock, status |-> status,
     checked |-> checked, duplicate |-> duplicate, enqueued |-> enqueued]

\* No delivery has arrived; the dispatcher is not part of the specification.
InitWebhook ==
    /\ FunctionsOff /\ ServiceOff /\ ProbeOff /\ ThreadsOff /\ ConversationOff /\ AsksOff
    /\ _processed_message_ids = EmptyDict
    /\ in_flight = {}
    /\ handled = <<>>
    /\ background_tasks = <<>>
    /\ deliveries = 0

webhook_frame ==
    <<fn_vars, config_vars, thread_vars, conversation_vars, ask_vars, probe_vars, dispatch_vars, platform_labels,
      first_reply_created, _team_cache, _response_cache, dispatches, failures>>

\* Lines 925-941: a delivery arrives; a wrong token is refused at once,
\* otherwise the handler waits for the body.
Receive(payload) ==
    /\ deliveries < MaxDeliveries
    /\ deliveries' = deliveries + 1
    /\ IF payload.token_ok
       THEN /\ in_flight' = in_flight \cup {[n |-> deliveries + 1, payload |-> payload]}
            /\ handled' = handled
       ELSE /\ in_flight' = in_flight
            /\ handled' = Append(handled, Handled(deliveries + 1, payload, 403,
                                                  FALSE, FALSE, FALSE))
    /\ UNCHANGED <<webhook_frame, _processed_message_ids, background_tasks,
                   clock, ticks>>

\* Mutant: process_and_reply is awaited inside the handler, so it has run
\* when the response is returned.
add_task_awaited(n, id, at) ==
    [n |-> n, id |-> id, at |-> at, ran |-> TRUE, failed |-> FALSE]

\* Lines 1012-1019: background_tasks.add_task(process_and_reply, ...) queues
\* the call; the framework runs it once the response has been sent.
add_task(n, id, at) ==
    [n |-> n, id |-> id, at |-> at, ran |-> FALSE, failed |-> FALSE]

\* Lines 941-1026: the body has come; the handler runs to its response.
HandleDelivery(d) ==
    /\ d \in in_flight
    /\ in_flight' = in_flight \ {d}
    /\ \E check \in {IF d.payload.id = None
                    THEN [duplicate |-> FALSE, ids |-> _processed_message_ids]
                    ELSE DedupCheck(_processed_message_ids, clock, d.payload.id[1])} :
       \E enqueue \in {/\ d.payload.content # ""
                       /\ d.payload.conversation} :
          IF ~d.payload.json_ok
          THEN /\ handled' = Append(handled, Handled(d.n, d.payload, 400, FALSE,
                                                     FALSE, FALSE))
               /\ UNCHANGED <<_processed_message_ids, background_tasks>>
          ELSE IF ~Dispatchable(d.payload)
          THEN /\ handled' = Append(handled, Handled(d.n, d.payload, 200, FALSE,
                                                     FALSE, FALSE))
               /\ UNCHANGED <<_processed_message_ids, background_tasks>>
          ELSE IF check.duplicate
          THEN /\ handled' = Append(handled, Handled(d.n, d.payload, 200, TRUE,
                                                     TRUE, FALSE))
               /\ _processed_message_ids' = check.ids
               /\ UNCHANGED background_tasks
          ELSE /\ handled' = Append(handled, Handled(d.n, d.payload, 200,
                                        d.payload.id # None, FALSE, enqueue))
               /\ _processed_message_ids' = check.ids
               /\ background_tasks' =
                      IF enqueue
                      THEN Append(background_tasks,
                                  add_task(d.n, d.payload.id, clock))
                      ELSE background_tasks
    /\ UNCHANGED <<webhook_frame, deliveries, clock, ticks>>

\* Mutant: a processing that failed takes its message id out of the
\* registry, so that a redelivery is processed.
RunTask_forgetting_failed(k, raised) ==
    /\ k \in DOMAIN background_tasks
    /\ ~background_tasks[k].ran
    /\ background_tasks' = [background_tasks EXCEPT ![k].ran = TRUE,
                                                    ![k].failed = raised]
    /\ _processed_message_ids' =
           IF raised /\ background_tasks[k].id # None
           THEN [id \in DOMAIN _processed_message_ids \ {background_tasks[k].id[1]}
                    |-> _processed_message_ids[id]]
           ELSE _processed_message_ids
    /\ UNCHANGED <<webhook_frame, in_flight, handled, deliveries, clock, ticks>>

\* Lines 890-918: a task added by a delivery already answered runs
\* process_and_reply, which catches whatever the dispatch raises (raised)
\* and does not touch the registry of message ids.
RunTask(k, raised) ==
    /\ k \in DOMAIN background_tasks
    /\ ~background_tasks[k].ran
    /\ background_tasks' = [background_tasks EXCEPT ![k].ran = TRUE,
                                                    ![k].failed = raised]
    /\ UNCHANGED <<webhook_frame, _processed_message_ids, in_flight, handled,
                   deliveries, clock, ticks>>

\* Time passes.
TickWebhook(step) ==
    /\ ticks < MaxWebhookTicks
    /\ ticks' = ticks + 1
    /\ clock' = clock + step
    /\ UNCHANGED <<webhook_frame, webhook_vars>>

NextWebhook ==
    \/ \E payload \in Payloads : Receive(payload)
    \/ \E d \in in_flight : HandleDelivery(d)
    \/ \E k \in DOMAIN background_tasks, raised \in BOOLEAN : RunTask(k, raised)
    \/ \E step \in ClockSteps : TickWebhook(step)

SpecWebhook == InitWebhook /\ [][NextWebhook]_vars

(***************************************************************************)
(* SpecCache: the response cache of RagSystem under sequences of           *)
(* _cache_answer and _get_cached_answer calls, with time passing           *)
(***************************************************************************)

\* RESPONSE_CACHE_MAX_ITEMS as read from the environment (Agente2.py line
\* 45) of the cache explored here.
CacheCapacity == 2

\* Calls and clock steps explored.
MaxCacheCalls == 3
MaxCacheTicks == 2

\* session_id of handle_incoming for two conversations.
Sessions == {"chatwoot_1", "chatwoot_2"}

\* Answers handed to _cache_answer.
Answers == {"", "Resposta A", "Resposta B"}

\* The call made last: its arguments, the time, the cache it found and
\* what it returned (None for _cache_answer).
CacheCall(op, session, question, answer, returned) ==
    [op |-> op, session_id |-> session, question |-> question,
     answer |-> answer, now |-> clock, before |-> _response_cache,
     returned |-> returned]

InitCache ==
    /\ FunctionsOff /\ ServiceOff /\ WebhookOff /\ ThreadsOff /\ ConversationOff /\ AsksOff
    /\ cache_call = None
    /\ stored_answers = {}
    /\ cache_calls = 0

cache_frame ==
    <<fn_vars, config_vars, thread_vars, conversation_vars, ask_vars, webhook_vars, dispatch_vars, platform_labels,
      first_reply_created, _team_cache, dispatches, failures>>

\* self._cache_answer(session_id, question, answer)
CacheAnswer(session, question, answer) ==
    /\ cache_calls < MaxCacheCalls
    /\ cache_calls' = cache_calls + 1
    /\ _response_cache' = _cache_answer(_response_cache, clock, session,
                                        question, answer, CacheCapacity)
    /\ cache_call' = Some(CacheCall("_cache_answer", session, question, answer, None))
    /\ stored_answers' = stored_answers \cup {<<session, question, answer>>}
    /\ UNCHANGED <<cache_frame, clock, ticks>>

\* self._get_cached_answer(session_id, question)
GetCachedAnswer(session, question) ==
    /\ cache_calls < MaxCacheCalls
    /\ cache_calls' = cache_calls + 1
    /\ \E got \in {_get_cached_answer(_response_cache, clock, session, question)} :
          /\ _response_cache' = got.cache
          /\ cache_call' = Some(CacheCall("_get_cached_answer", session,
                                          question, "", got.answer))
    /\ UNCHANGED <<cache_frame, stored_answers, clock, ticks>>

\* Time passes.
TickCache(step) ==
    /\ ticks < MaxCacheTicks
    /\ ticks' = ticks + 1
    /\ clock' = clock + step
    /\ UNCHANGED <<cache_frame, probe_vars, _response_cache>>

NextCache ==
    \/ \E session \in Sessions, question \in Questions, answer \in Answers :
           CacheAnswer(session, question, answer)
    \/ \E session \in Sessions, question \in Questions :
           GetCachedAnswer(session, question)
    \/ \E step \in ClockSteps : TickCache(step)

SpecCache == InitCache /\ [][NextCache]_vars

(***************************************************************************)
(* SpecResolve: resolve_team_id called again and again on one client,      *)
(* while the teams of the account may be renamed or removed                *)
(***************************************************************************)

\* team_name_or_id: absent, blank, numeric strings, team names in several
\* spellings, a phrase holding a team name, a part of one, an unknown name.
ResolveQueries ==
    {None, Some(" "), Some("7"), Some(" 42 "), Some("Suporte"),
     Some("JURIDICO"), Some("Juridíco"), Some("equipe de financeiro"),
     Some("equipe de suporte financeiro"), Some("Financeiro"), Some("Vendas")}

\* The teams of the account after a reorganisation: the legal team is
\* gone and a team whose name holds another team's name is listed first.
ReorganisedTeams ==
    <<[id |-> 4, name |-> "Suporte Financeiro"], [id |-> 2, name |-> "Financeiro"],
      [id |-> 1, name |-> "Suporte"]>>

\* What GET /teams answers at the time of a call.
ResolveListings == {None, Some(PlatformTeams), Some(ReorganisedTeams)}

\* Calls explored.
MaxResolveCalls == 2

\* The call made last: its argument, what GET /teams would answer, the
\* cache it found, the id returned and whether the teams were listed.
ResolveCall(query, listing, r) ==
    [op |-> "resolve_team_id", query |-> query, listing |-> listing,
     before |-> _team_cache, returned |-> r.id, listed |-> r.listed]

\* ChatwootClient.__init__: self._team_cache = {}
InitResolve ==
    /\ FunctionsOff /\ ServiceOff /\ WebhookOff /\ ProbeOff /\ ThreadsOff /\ ConversationOff /\ AsksOff

resolve_frame ==
    <<fn_vars, config_vars, thread_vars, conversation_vars, ask_vars, webhook_vars, dispatch_vars, platform_labels,
      first_reply_created, _response_cache, clock, ticks, dispatches, failures,
      stored_answers>>

\* await self.chatwoot.resolve_team_id(account_id, team_name_or_id)
Resolve(query, listing) ==
    /\ cache_calls < MaxResolveCalls
    /\ cache_calls' = cache_calls + 1
    /\ \E r \in {resolve_team_id(query, _team_cache, listing)} :
          /\ _team_cache' = r.cache
          /\ cache_call' = Some(ResolveCall(query, listing, r))
    /\ UNCHANGED resolve_frame

NextResolve ==
    \E query \in ResolveQueries, listing \in ResolveListings : Resolve(query, listing)

SpecResolve == InitResolve /\ [][NextResolve]_vars

(***************************************************************************)
(* SpecTeams: the team handle_incoming hands to the resolver, on every     *)
(* drawn message, TEAM setting, fallback id and classifier outcome         *)
(***************************************************************************)

InitTeams ==
    /\ WebhookOff /\ ProbeOff /\ ThreadsOff /\ ConversationOff /\ AsksOff
    /\ in_message \in TeamMessages
    /\ in_labels = {}
    /\ in_agent \in BOOLEAN
    /\ in_teams \in TeamSettings
    /\ in_llm \in (IF in_agent THEN TeamLlmOutcomes ELSE {LlmRaises})
    /\ in_target = {}
    /\ out_decision = None
    /\ out_llm_calls = 0
    /\ out_labels = None
    /\ CHATWOOT_HUMAN_TEAM_ID \in {"", "7"}
    /\ _classifier_agent = FALSE
    /\ _active_teams = <<>>
    /\ ORCHESTRATOR_CONFIDENCE_THRESHOLD = 0
    /\ rag_system = ""
    /\ platform_labels = {}
    /\ first_reply_created = FALSE
    /\ failures = 0
    /\ _team_cache = EmptyDict
    /\ _response_cache = <<>>
    /\ clock = 0
    /\ ticks = 0
    /\ dispatches = 0
    /\ pc = "off"
    /\ NoDispatch

\* Lines 643 and 653: decision = self.classify_intent(content, label_set);
\* selected_human_team = decision.requested_team or self._pick_human_team(content)
SelectTeam ==
    /\ out_decision = None
    /\ \E d \in {classify_intent(InMessage, in_labels, in_agent, InTeams, InLlm)} :
          /\ out_decision' = Some(d)
          /\ selected_human_team' =
                 IF d.requested_team # None /\ d.requested_team[1] # ""
                 THEN d.requested_team
                 ELSE _pick_human_team(InMessage, InTeams, Canon(CHATWOOT_HUMAN_TEAM_ID))
    /\ UNCHANGED <<in_message, in_labels, in_agent, in_teams, in_llm, in_target,
                   out_llm_calls, out_labels, config_vars, thread_vars, conversation_vars, ask_vars, webhook_vars,
                   probe_vars, service_vars, pc, msg_content, force_ia_label,
                   label_set, decision, orchestrator_ts, resolved_human_team_id,
                   specialist_result, agent_ran, error, calls>>

NextTeams == SelectTeam

SpecTeams == InitTeams /\ [][NextTeams]_vars
(***************************************************************************)
(* SpecThreads: RagSystem.ask running in worker threads. handle_incoming   *)
(* calls specialist.answer through asyncio.to_thread, so the asks of       *)
(* several dispatches run in threads of the default executor with no lock  *)
(* around the response cache. One dict operation is atomic (it runs under   *)
(* the interpreter lock); a thread can be suspended between any two of     *)
(* them, and inside min(), which calls a lambda for every key.             *)
(***************************************************************************)

Workers == {1, 2}
AskedQuestions == {"Art. 5", "Prazo?"}

\* Asks of one thread and clock steps explored.
MaxAsks == 2
MaxThreadTicks == 1

\* A thread between two asks; what its last ask did stays readable.
Idle(asked, hit, raised, removals) ==
    [pc |-> "idle", asked |-> asked, key |-> None, cached |-> None,
     answer |-> "", scan |-> None, oldest |-> None, hit |-> hit,
     raised |-> raised, removals |-> removals]

\* What a pop took out of the dict, and the entry the thread had read when
\* it decided to take it out.
Removal(chosen, removed) == [chosen |-> chosen, removed |-> removed]

InitThreads ==
    /\ FunctionsOff /\ ServiceOff /\ WebhookOff /\ ProbeOff /\ ConversationOff /\ AsksOff
    /\ threads = [t \in Workers |-> Idle(0, FALSE, "", <<>>)]
    /\ _lock = None
    /\ _model = None
    /\ _embeddings = <<>>
    /\ loads = 0

threads_frame ==
    <<fn_vars, config_vars, webhook_vars, probe_vars, dispatch_vars,
      platform_labels, first_reply_created, _team_cache, dispatches, failures,
      _lock, _model, _embeddings, loads, conversation_vars, ask_vars>>

\* The entry under a key, as dict.get gives it: None, or <<entry>>.
EntryAt(cache, key) ==
    IF Positions(cache, key) = {} THEN None
    ELSE Some(cache[Min(Positions(cache, key))])

\* dict.pop(key, None).
Popped(cache, key) ==
    IF Positions(cache, key) = {} THEN cache
    ELSE Without(cache, Min(Positions(cache, key)))

\* min(self._response_cache, key=lambda k: self._response_cache[k][1]) that
\* began over the keys scan and ends over cache: the entries it can return
\* (None stands for the RuntimeError of a dict that changed size during the
\* iteration, or the KeyError of the lambda on a key that is gone). With the
\* keys unchanged it is the oldest entry; with other keys of the same number
\* the iteration goes on over a changed dict and can stop at any of them.
Scanned(cache, scan) ==
    IF {cache[i].key : i \in DOMAIN cache} = scan
    THEN {Some(cache[OldestPosition(cache)])}
    ELSE IF Len(cache) # Cardinality(scan) THEN {None}
    ELSE {None} \cup {Some(cache[i]) : i \in DOMAIN cache}

\* ask(question, session_id) is called in thread t: line 296 is next.
Ask(t, session, question) ==
    /\ threads[t].pc = "idle"
    /\ threads[t].asked < MaxAsks
    /\ threads' = [threads EXCEPT ![t] =
           [Idle(threads[t].asked + 1, FALSE, "", <<>>) EXCEPT
               !.pc = "get", !.key = Some(CacheKey(session, question))]]
    /\ UNCHANGED <<threads_frame, _response_cache, clock, ticks>>

\* _get_cached_answer, line 254: cached = self._response_cache.get(key).
GetEntry(t) ==
    /\ threads[t].pc = "get"
    /\ \E cached \in {EntryAt(_response_cache, threads[t].key[1])} :
           threads' = [threads EXCEPT ![t].cached = cached,
                                      ![t].pc = IF cached = None THEN "run"
                                                ELSE "check_ttl"]
    /\ UNCHANGED <<threads_frame, _response_cache, clock, ticks>>

\* Lines 257-261 and 297-299: the age of the entry read; a live entry is
\* the answer of the ask.
CheckTtl(t) ==
    /\ threads[t].pc = "check_ttl"
    /\ threads' =
           IF (clock - threads[t].cached[1].ts) > RESPONSE_CACHE_TTL_SECONDS
           THEN [threads EXCEPT ![t].pc = "pop_expired"]
           ELSE [threads EXCEPT ![t] =
                    Idle(threads[t].asked, TRUE, "", threads[t].removals)]
    /\ UNCHANGED <<threads_frame, _response_cache, clock, ticks>>

\* Line 259: self._response_cache.pop(key, None), whatever is under the key
\* by now.
PopExpired(t) ==
    /\ threads[t].pc = "pop_expired"
    /\ _response_cache' = Popped(_response_cache, threads[t].key[1])
    /\ threads' = [threads EXCEPT
           ![t].pc = "run",
           ![t].removals = Append(@, Removal(threads[t].cached,
                                  EntryAt(_response_cache, threads[t].key[1])))]
    /\ UNCHANGED <<threads_frame, clock, ticks>>

\* Lines 301-303: the agent of the session answers; the answer is never
\* empty.
RunAgent(t, answer) ==
    /\ threads[t].pc = "run"
    /\ threads' = [threads EXCEPT ![t].pc = "check_len", ![t].answer = answer]
    /\ UNCHANGED <<threads_frame, _response_cache, clock, ticks>>

\* _cache_answer, lines 264-268: the test of the size; at capacity min()
\* starts to iterate over the keys.
CheckLen(t) ==
    /\ threads[t].pc = "check_len"
    /\ threads' =
           IF Len(_response_cache) >= CacheCapacity
           THEN [threads EXCEPT
                    ![t].pc = "min",
                    ![t].scan = Some({_response_cache[i].key :
                                         i \in DOMAIN _response_cache})]
           ELSE [threads EXCEPT ![t].pc = "store"]
    /\ UNCHANGED <<threads_frame, _response_cache, clock, ticks>>

\* Line 268: min() ends, with the oldest key or with an exception that
\* leaves ask.
EndScan(t) ==
    /\ threads[t].pc = "min"
    /\ \E oldest \in Scanned(_response_cache, threads[t].scan[1]) :
           threads' =
               IF oldest = None
               THEN [threads EXCEPT ![t] =
                        Idle(threads[t].asked, FALSE, "RuntimeError",
                             threads[t].removals)]
               ELSE [threads EXCEPT ![t].pc = "pop_oldest",
                                    ![t].oldest = oldest]
    /\ UNCHANGED <<threads_frame, _response_cache, clock, ticks>>

\* Line 269: self._response_cache.pop(oldest_key, None).
PopOldest(t) ==
    /\ threads[t].pc = "pop_oldest"
    /\ _response_cache' = Popped(_response_cache, threads[t].oldest[1].key)
    /\ threads' = [threads EXCEPT
           ![t].pc = "store",
           ![t].removals = Append(@, Removal(threads[t].oldest,
                              EntryAt(_response_cache, threads[t].oldest[1].key)))]
    /\ UNCHANGED <<threads_frame, clock, ticks>>

\* Lines 270-271: self._response_cache[key] = (answer, time.time()); ask
\* returns the answer.
Store(t) ==
    /\ threads[t].pc = "store"
    /\ \E entry \in {[key |-> threads[t].key[1], answer |-> threads[t].answer,
                     ts |-> clock]} :
           _response_cache' =
               IF Positions(_response_cache, entry.key) = {}
               THEN Append(_response_cache, entry)
               ELSE [_response_cache EXCEPT
                        ![Min(Positions(_response_cache, entry.key))] = entry]
    /\ threads' = [threads EXCEPT ![t] =
           Idle(threads[t].asked, FALSE, "", threads[t].removals)]
    /\ UNCHANGED <<threads_frame, clock, ticks>>

\* Time passes, by more than the TTL.
TickThreads ==
    /\ ticks < MaxThreadTicks
    /\ ticks' = ticks + 1
    /\ clock' = clock + RESPONSE_CACHE_TTL_SECONDS + 1
    /\ UNCHANGED <<threads_frame, threads, _response_cache>>

NextThreads ==
    \/ \E t \in Workers, session \in Sessions, question \in AskedQuestions :
           Ask(t, session, question)
    \/ \E t \in Workers : GetEntry(t)
    \/ \E t \in Workers : CheckTtl(t)
    \/ \E t \in Workers : PopExpired(t)
    \/ \E t \in Workers : RunAgent(t, "Resposta A")
    \/ \E t \in Workers : CheckLen(t)
    \/ \E t \in Workers : EndScan(t)
    \/ \E t \in Workers : PopOldest(t)
    \/ \E t \in Workers : Store(t)
    \/ TickThreads

SpecThreads == InitThreads /\ [][NextThreads]_vars
(***************************************************************************)
(* SpecConversation: the messages of one conversation. The webhook takes   *)
(* the labels of the conversation from the event (the snapshot) and adds   *)
(* the task; the task classifies with the snapshot and replaces the labels *)
(* of the conversation by the list it composed from the snapshot. Tasks of *)
(* one conversation are not serialised, and people label the conversation  *)
(* on the platform in between. Every request succeeds.                     *)
(***************************************************************************)

\* Messages of the conversation explored.
MaxMessages == 3

\* Confidences of the specialist's result, in hundredths (one on each side
\* of the threshold of 0.7).
Confidences == {50, 80}

\* A message as the webhook hands it to process_and_reply, before and after
\* handle_incoming has run for it.
Queued(content, labels) ==
    [content |-> content, labels |-> labels, processed |-> FALSE,
     route |-> "", reason |-> "", branch |-> "", before |-> {}, written |-> {}]
Processed(message, d, branch, before, written) ==
    [message EXCEPT !.processed = TRUE, !.route = d.route, !.reason = d.reason,
                    !.branch = branch, !.before = before, !.written = written]

\* target_labels of the set_labels call of each branch (lines 678, 717, 745
\* and 767).
target_labels(branch) ==
    CASE branch = "human" -> {CHATWOOT_LABEL_HUMANO}
      [] branch = "direct" -> {CHATWOOT_LABEL_IA_ORQUESTRADOR}
      [] branch = "mec_high" -> {CHATWOOT_LABEL_IA_MEC}
      [] branch = "mec_low" -> {CHATWOOT_LABEL_HUMANO, CHATWOOT_LABEL_IA_FALHA}

\* The branch handle_incoming takes for a decision and a confidence.
BranchOf(d, confidence) ==
    IF d.route = "human" THEN "human"
    ELSE IF d.route = "direct" THEN "direct"
    ELSE IF high_confidence(confidence, ORCHESTRATOR_CONFIDENCE_THRESHOLD)
         THEN "mec_high" ELSE "mec_low"

\* A new conversation without labels; rules alone classify (no classifier
\* agent, no teams), the threshold is 0.7.
InitConversation ==
    /\ FunctionsOff /\ WebhookOff /\ ProbeOff /\ ThreadsOff /\ AsksOff
    /\ _classifier_agent = FALSE
    /\ _active_teams = <<>>
    /\ CHATWOOT_HUMAN_TEAM_ID = ""
    /\ ORCHESTRATOR_CONFIDENCE_THRESHOLD = 70
    /\ rag_system = "Agente2.RagSystem"
    /\ platform_labels = {}
    /\ first_reply_created = FALSE
    /\ failures = 0
    /\ _team_cache = EmptyDict
    /\ _response_cache = <<>>
    /\ clock = 0
    /\ ticks = 0
    /\ dispatches = 0
    /\ pc = "off"
    /\ NoDispatch
    /\ conversation = <<>>

conversation_frame ==
    <<fn_vars, config_vars, thread_vars, ask_vars, webhook_vars, probe_vars,
      dispatch_vars, first_reply_created, _team_cache, _response_cache, clock,
      ticks, dispatches, failures>>

\* chatwoot_webhook, lines 993 and 1012-1019: the labels in the event are
\* those of the conversation when the event was made.
Deliver(content) ==
    /\ Len(conversation) < MaxMessages
    /\ conversation' = Append(conversation, Queued(content, platform_labels))
    /\ UNCHANGED <<conversation_frame, platform_labels>>

\* handle_incoming for message i with every request succeeding: the decision
\* from the snapshot (643), the labels composed from the snapshot and sent as
\* the whole list of the conversation (676-683, 715-719, 743-747, 765-769).
Process(i, confidence) ==
    /\ i \in DOMAIN conversation
    /\ ~conversation[i].processed
    /\ \E d \in {DispatchDecisions[<<conversation[i].content,
                                    conversation[i].labels, _classifier_agent,
                                    _active_teams, LlmRaises>>]} :
       \E labels \in {_compose_state_labels(conversation[i].labels,
                          target_labels(BranchOf(d, confidence)))} :
           /\ d.route = "mec" \/ confidence = 80
           /\ platform_labels' = ToSet(labels)
           /\ conversation' =
                  [conversation EXCEPT ![i] =
                      Processed(conversation[i], d, BranchOf(d, confidence),
                                platform_labels, ToSet(labels))]
    /\ UNCHANGED conversation_frame

\* Someone applies a label of their own to the conversation on the platform.
ApplyLabel(label) ==
    /\ label \notin platform_labels
    /\ platform_labels' = platform_labels \cup {label}
    /\ UNCHANGED <<conversation_frame, conversation>>

NextConversation ==
    \/ \E content \in DispatchMessages : Deliver(content)
    \/ \E i \in 1..MaxMessages, confidence \in Confidences : Process(i, confidence)
    \/ ApplyLabel("vip")

SpecConversation == InitConversation /\ [][NextConversation]_vars
(***************************************************************************)
(* SpecAsk: RagSystem.ask called again and again by one caller, with time  *)
(* passing between the calls                                               *)
(***************************************************************************)

\* Calls of ask and clock steps explored.
MaxAskCalls == 3
MaxAskTicks == 2

\* Questions asked: those put to the cache, two of them equal after
\* _normalize_question, and a greeting.
AskQuestions == Questions \cup {"Bom dia"}

\* Outcomes of agent.run(question): an error, two answers, an empty content.
AskRuns ==
    {RunRaises("Exception"), RunReply("Resposta A"), RunReply("Resposta B"),
     RunReply("")}

\* A call of ask: its arguments, the time, the cache it found and what came
\* of it.
Asked(session, question, asked) ==
    [session_id |-> session, question |-> question, now |-> clock,
     before |-> _response_cache, raises |-> asked.raises, ran |-> asked.ran,
     answer |-> asked.answer]

InitAsk ==
    /\ FunctionsOff /\ ServiceOff /\ WebhookOff /\ ProbeOff /\ ThreadsOff
    /\ ConversationOff
    /\ asks = <<>>

ask_frame ==
    <<fn_vars, config_vars, thread_vars, conversation_vars, webhook_vars,
      probe_vars, dispatch_vars, platform_labels, first_reply_created,
      _team_cache, dispatches, failures>>

\* rag.ask(question, session_id), Agente2.py lines 276-305.
AskQuestion(session, question, run) ==
    /\ Len(asks) < MaxAskCalls
    /\ \E asked \in {ask(question, session, _response_cache, clock, run,
                         CacheCapacity)} :
          /\ _response_cache' = asked.cache
          /\ asks' = Append(asks, Asked(session, question, asked))
    /\ UNCHANGED <<ask_frame, clock, ticks>>

\* Time passes.
TickAsk(step) ==
    /\ ticks < MaxAskTicks
    /\ ticks' = ticks + 1
    /\ clock' = clock + step
    /\ UNCHANGED <<ask_frame, _response_cache, asks>>

NextAsk ==
    \/ \E session \in Sessions, question \in AskQuestions, run \in AskRuns :
           AskQuestion(session, question, run)
    \/ \E step \in ClockSteps : TickAsk(step)

SpecAsk == InitAsk /\ [][NextAsk]_vars
(***************************************************************************)
(* SpecLazy: first calls of OrquestradorHF.classify and warmup made by     *)
(* several threads at once. A step is one bytecode-level access of the     *)
(* object: the interpreter lock makes each read and each assignment of an  *)
(* attribute atomic and lets the threads interleave between them.          *)
(***************************************************************************)

\* Threads that call the classifier.
Callers == {1, 2, 3}

\* Line 111.
_MODEL_NAME == "all-MiniLM-L6-v2"

\* Keys of _INTENT_EXAMPLES.
Intents == {"HUMAN", "MEC", "DIRECT"}

\* A thread: where it is, the method it called, how it got through
\* _ensure_loaded, and what classify found in self._model and
\* self._embeddings (None, or <<what it read>>).
Caller(at, method, path, seen) ==
    [pc |-> at, method |-> method, path |-> path, seen |-> seen]

InitLazy ==
    /\ FunctionsOff /\ ServiceOff /\ WebhookOff /\ ProbeOff /\ ConversationOff
    /\ AsksOff
    /\ threads = [t \in Callers |-> Caller("idle", "", "", None)]
    /\ _lock = None
    /\ _model = None
    /\ _embeddings = <<>>
    /\ loads = 0

lazy_frame ==
    <<fn_vars, config_vars, webhook_vars, probe_vars, dispatch_vars,
      service_vars, conversation_vars, ask_vars>>

\* Thread t is at step `at`.
At(t, at) == threads[t].pc = at

Goes(t, at) == threads' = [threads EXCEPT ![t].pc = at]

\* classify (line 167) or warmup (line 148) calls _ensure_loaded.
CallMethod(t, method) ==
    /\ At(t, "idle")
    /\ threads' = [threads EXCEPT ![t] = Caller("check", method, "", None)]
    /\ UNCHANGED <<lazy_frame, _lock, _model, _embeddings, loads>>

\* Lines 125-126: the check made without the lock.
FirstCheck(t) ==
    /\ At(t, "check")
    /\ threads' = [threads EXCEPT ![t] =
                      IF _model # None
                      THEN Caller("loaded", threads[t].method, "first_check", None)
                      ELSE Caller("acquire", threads[t].method, "", None)]
    /\ UNCHANGED <<lazy_frame, _lock, _model, _embeddings, loads>>

\* Line 127: with self._lock, entered once the lock is free.
AcquireLock(t) ==
    /\ At(t, "acquire")
    /\ _lock = None
    /\ _lock' = Some(t)
    /\ Goes(t, "second_check")
    /\ UNCHANGED <<lazy_frame, _model, _embeddings, loads>>

\* Mutant: the check under the lock is left out.
SecondCheck_left_out(t) ==
    /\ At(t, "second_check")
    /\ Goes(t, "load")
    /\ UNCHANGED <<lazy_frame, _lock, _model, _embeddings, loads>>

\* Lines 128-129: the check repeated under the lock; the return leaves the
\* with block and releases the lock.
SecondCheck(t) ==
    /\ At(t, "second_check")
    /\ IF _model # None
       THEN /\ threads' = [threads EXCEPT ![t] =
                   Caller("loaded", threads[t].method, "second_check", None)]
            /\ _lock' = None
       ELSE /\ Goes(t, "load")
            /\ _lock' = _lock
    /\ UNCHANGED <<lazy_frame, _model, _embeddings, loads>>

\* Lines 130-137: the imports, the model constructed and the examples of
\* each intent encoded, all in locals. What raises here leaves the with
\* block, releases the lock and goes to the caller.
Load(t, raised) ==
    /\ At(t, "load")
    /\ IF raised
       THEN /\ threads' = [threads EXCEPT ![t] =
                   Caller("raised", threads[t].method, "load", None)]
            /\ _lock' = None
            /\ loads' = loads
       ELSE /\ Goes(t, "assign_embeddings")
            /\ _lock' = _lock
            /\ loads' = loads + 1
    /\ UNCHANGED <<lazy_frame, _model, _embeddings>>

\* Lines 138-139: self._np = np; self._embeddings = embeddings.
AssignEmbeddings(t) ==
    /\ At(t, "assign_embeddings")
    /\ _embeddings' = [intent \in Intents |-> "embeddings"]
    /\ Goes(t, "assign_model")
    /\ UNCHANGED <<lazy_frame, _lock, _model, loads>>

\* Line 140: self._model = model, the last assignment.
AssignModel(t) ==
    /\ At(t, "assign_model")
    /\ _model' = Some(_MODEL_NAME)
    /\ Goes(t, "release")
    /\ UNCHANGED <<lazy_frame, _lock, _embeddings, loads>>

\* Line 141 and the end of the with block.
ReleaseLock(t) ==
    /\ At(t, "release")
    /\ _lock' = None
    /\ threads' = [threads EXCEPT ![t] =
                      Caller("loaded", threads[t].method, "load", None)]
    /\ UNCHANGED <<lazy_frame, _model, _embeddings, loads>>

\* Lines 168-173: back in classify, self._model and self._embeddings are
\* read; warmup (line 148) returns.
UseModel(t) ==
    /\ At(t, "loaded")
    /\ threads' = [threads EXCEPT ![t].pc = "returned",
                                  ![t].seen =
                                      IF threads[t].method = "classify"
                                      THEN Some([model |-> _model,
                                                 embeddings |-> _embeddings])
                                      ELSE None]
    /\ UNCHANGED <<lazy_frame, _lock, _model, _embeddings, loads>>

NextLazy ==
    \/ \E t \in Callers, method \in {"classify", "warmup"} : CallMethod(t, method)
    \/ \E t \in Callers : FirstCheck(t)
    \/ \E t \in Callers : AcquireLock(t)
    \/ \E t \in Callers : SecondCheck(t)
    \/ \E t \in Callers, raised \in BOOLEAN : Load(t, raised)
    \/ \E t \in Callers : AssignEmbeddings(t)
    \/ \E t \in Callers : AssignModel(t)
    \/ \E t \in Callers : ReleaseLock(t)
    \/ \E t \in Callers : UseModel(t)

SpecLazy == InitLazy /\ [][NextLazy]_vars


(***************************************************************************)
(* Properties of classify_intent (checked under SpecClassify)              *)
(***************************************************************************)

Classified == out_decision # None
Decision == out_decision[1]
InText == normalize_text(InMessage)
HumanRequested == _requested_human(InText)
AiRequested == _requested_ai(InText)
Locked == {CHATWOOT_LABEL_HUMANO, CHATWOOT_LABEL_IA_FALHA} \subseteq in_labels

\* C1: a message with an explicit human request is decided route=human,
\* reason=explicit_human_request, for every label set and whether or not it
\* also asks for the AI, and the classifier agent is not run.
C1_ExplicitHumanWins ==
    (Classified /\ HumanRequested) =>
        /\ Decision.route = "human"
        /\ Decision.reason = "explicit_human_request"
        /\ out_llm_calls = 0

\* C1 witness: a human request that also asks for the AI, in a locked
\* conversation, with the fallback enabled, has been classified.
C1_Witness ==
    /\ Classified /\ HumanRequested /\ AiRequested /\ Locked /\ in_agent
    /\ Decision.reason = "explicit_human_request"

\* C2 as stated: with both the human and the AI-failure label and no AI
\* request, the decision is route=human with reason=conversation_already_human
\* for any message content.
C2_Original ==
    (Classified /\ Locked /\ ~AiRequested) =>
        /\ Decision.route = "human"
        /\ Decision.reason = "conversation_already_human"

\* C2 amended: with both labels and no AI request the route is always human;
\* the reason is conversation_already_human unless the message itself is an
\* explicit human request, whose reason is explicit_human_request.
C2_LockedRoutesHuman ==
    (Classified /\ Locked /\ ~AiRequested) =>
        /\ Decision.route = "human"
        /\ Decision.reason = (IF HumanRequested THEN "explicit_human_request"
                              ELSE "conversation_already_human")
        /\ out_llm_calls = 0

\* C2 witness: a domain question in a locked conversation is held for humans.
C2_Witness ==
    /\ Classified /\ Locked /\ ~AiRequested /\ ~HumanRequested
    /\ _is_mec_topic(InText) /\ in_agent
    /\ Decision.reason = "conversation_already_human"

\* C3: without the AI-failure label the conversation is never locked: the
\* reason is never conversation_already_human and the decision is the one
\* the same message gets with no labels at all.
C3_HumanLabelAloneDoesNotLock ==
    (Classified /\ CHATWOOT_LABEL_IA_FALHA \notin in_labels) =>
        /\ Decision.reason # "conversation_already_human"
        /\ Decision = classify_intent(InMessage, {}, in_agent, InTeams, InLlm)

\* C3 witness: a conversation labelled humano (no failure label) whose
\* message went to the knowledge route.
C3_Witness ==
    /\ Classified
    /\ CHATWOOT_LABEL_HUMANO \in in_labels
    /\ CHATWOOT_LABEL_IA_FALHA \notin in_labels
    /\ ~HumanRequested /\ ~AiRequested
    /\ Decision.route = "mec"

\* C4: an AI request without a human request is decided route=mec,
\* reason=explicit_ai_request for every label set, the locked one included,
\* and the classifier agent is not run.
C4_ExplicitAiRequest ==
    (Classified /\ AiRequested /\ ~HumanRequested) =>
        /\ Decision.route = "mec"
        /\ Decision.reason = "explicit_ai_request"
        /\ out_llm_calls = 0

\* C4 witness: an AI request in a locked conversation, fallback enabled.
C4_Witness ==
    /\ Classified /\ AiRequested /\ ~HumanRequested /\ Locked /\ in_agent
    /\ Decision.route = "mec"

\* The fallback's answer names no route.
NoRecognizedRoute(content) ==
    LET value == normalize_text(content)
    IN  ~Contains(value, "human") /\ ~Contains(value, "direct")
        /\ ~Contains(value, "mec")

\* C5: when the enabled fallback raises or answers with no recognized route,
\* the decision is exactly the one made with the fallback disabled.
C5_FallbackFailureIsNoOpinion ==
    (Classified /\ in_agent /\ (in_llm.raises \/ NoRecognizedRoute(InLlm.content))) =>
        Decision = classify_intent(InMessage, in_labels, FALSE, InTeams, InLlm)

\* C5 witness: the fallback was run, answered text naming no route, and the
\* smalltalk rule decided.
C5_Witness ==
    /\ Classified /\ in_agent /\ ~in_llm.raises /\ in_llm.content # ""
    /\ NoRecognizedRoute(InLlm.content)
    /\ out_llm_calls = 1
    /\ Decision.reason = "smalltalk"

\* C6: a team kept from a HUMAN:<team> answer matches an active team, exactly
\* or by substring in either direction after folding; a team that matches
\* none is dropped and the route stays human; with no active teams the
\* requested team is always absent.
C6_ExtractedTeamValidated ==
    /\ (Classified /\ Decision.reason = "llm_classifier" /\ Decision.route = "human") =>
        /\ (Decision.requested_team # None =>
             \E n \in DOMAIN in_teams :
                 \/ Contains(fold_text(InTeams[n]),
                             fold_text(Canon(Decision.requested_team[1])))
                 \/ Contains(fold_text(Canon(Decision.requested_team[1])),
                             fold_text(InTeams[n])))
        /\ (in_teams = <<>> => Decision.requested_team = None)
    /\ (Classified /\ out_llm_calls = 1 /\ ~in_llm.raises
        /\ Contains(normalize_text(InLlm.content), "human")) =>
         Decision.route = "human"

\* C6 witness: the answer named a team that is not active; it was dropped
\* and the decision is an unscoped human route.
C6_Witness ==
    /\ Classified /\ Decision.reason = "llm_classifier" /\ Decision.route = "human"
    /\ in_teams # <<>>
    /\ ExtractTeam(normalize_text(InLlm.content)) # None
    /\ Decision.requested_team = None

\* C6 second case reached: a named active team is kept.
C6_WitnessKept ==
    /\ Classified /\ Decision.reason = "llm_classifier"
    /\ Decision.requested_team # None

\* No earlier step of the ladder applies to the drawn inputs.
NoLadderStepApplies ==
    /\ ~HumanRequested
    /\ ~Locked
    /\ ~AiRequested
    /\ ~(in_agent /\ ~in_llm.raises /\ ~NoRecognizedRoute(InLlm.content))
    /\ InText \notin _smalltalk
    /\ \A k \in _mec_keywords : ~Contains(InText, k)

\* C9: classify_intent returns one decision with a route among direct, mec,
\* human for every input, and route=mec with reason=default_mec_route exactly
\* when no earlier ladder step applies.
C9_TotalWithOptimisticDefault ==
    /\ classify_intent(InMessage, in_labels, in_agent, InTeams, InLlm).route
           \in {"direct", "mec", "human"}
    /\ (Classified =>
        /\ Decision.route \in {"direct", "mec", "human"}
        /\ ((Decision.reason = "default_mec_route") <=> NoLadderStepApplies)
        /\ (Decision.reason = "default_mec_route" => Decision.route = "mec"))

\* C9 witness: a message no rule recognizes, with the fallback run and
\* answering nothing usable, got the default.
C9_Witness ==
    /\ Classified /\ in_agent /\ out_llm_calls = 1
    /\ Decision.route = "mec" /\ Decision.reason = "default_mec_route"

\* The messages explored folded, and those of them an explicit-human pattern
\* matches after normalize_text, computed once.
FoldedMessages == [m \in Messages |-> fold_text(m)] @@ <<>>
PatternMessages ==
    {m \in Messages :
        \E n \in DOMAIN _human_patterns :
            re_search(_human_patterns[n], normalize_text(m))}
NormalizedMessages == [m \in Messages |-> normalize_text(m)] @@ <<>>

\* C33 as stated: a message that differs only in the case of letters or in
\* diacritics from a message an explicit-human pattern matches is routed to
\* human.
C33_CaseAndAccentInvariant ==
    (Classified /\ \E m \in PatternMessages :
                       FoldedMessages[m] = FoldedMessages[in_message]) =>
        Decision.route = "human"

\* C33, the part the code keeps: a message that differs only in the case of
\* letters (and in surrounding or repeated spaces) from a message an
\* explicit-human pattern matches is routed to human by an explicit request.
C33_CaseInvariant ==
    (Classified /\ \E m \in PatternMessages :
                       NormalizedMessages[m] = NormalizedMessages[in_message]) =>
        /\ Decision.route = "human"
        /\ Decision.reason = "explicit_human_request"

\* C33: "ATENDENTE" was routed to human.
C33_UpperCaseRouted ==
    /\ Classified /\ in_message = "ATENDENTE"
    /\ Decision.route = "human"

\* C33: "atendénte", which is "atendente" with one diacritic added, was
\* routed to the knowledge specialist.
C33_AccentChangesRoute ==
    /\ Classified /\ in_message = "atendénte"
    /\ "atendente" \in PatternMessages
    /\ FoldedMessages["atendente"] = FoldedMessages[in_message]
    /\ Decision.route = "mec"

\* The route token an answer of the fallback is: HUMAN, optionally followed
\* by a team, DIRECT or MEC, whatever the case, as the first word of the
\* answer; None when the answer is no token.
RouteToken(content) ==
    LET value == normalize_text(content)
        Word(w) ==
            /\ Len(value) >= Len(w)
            /\ SubSeq(value, 1, Len(w)) = w
            /\ \/ Len(value) = Len(w)
               \/ ~IsWordChar(SubSeq(value, Len(w) + 1, Len(w) + 1))
    IN  IF Word("human") THEN Some("human")
        ELSE IF Word("direct") THEN Some("direct")
        ELSE IF Word("mec") THEN Some("mec")
        ELSE None

FallbackAnswered == Classified /\ out_llm_calls = 1 /\ ~in_llm.raises

\* C38 as stated: the answer of the fallback decides only when it is one of
\* the tokens HUMAN[:<team>], DIRECT and MEC, and then the route is the one
\* the token names; any other answer is no opinion.
C38_OnlyRecognizedTokens ==
    FallbackAnswered =>
        IF RouteToken(InLlm.content) = None
        THEN Decision.reason # "llm_classifier"
        ELSE /\ Decision.reason = "llm_classifier"
             /\ Decision.route = RouteToken(InLlm.content)[1]

\* What the code does: the answer decides whenever its normalized text
\* contains "human", "direct" or "mec" anywhere, tried in this order.
C38_SubstringDecides ==
    FallbackAnswered =>
        LET value == normalize_text(InLlm.content)
        IN  IF Contains(value, "human")
            THEN Decision.reason = "llm_classifier" /\ Decision.route = "human"
            ELSE IF Contains(value, "direct")
            THEN Decision.reason = "llm_classifier" /\ Decision.route = "direct"
            ELSE IF Contains(value, "mec")
            THEN Decision.reason = "llm_classifier" /\ Decision.route = "mec"
            ELSE Decision.reason # "llm_classifier"

\* C38: an answer that is no token was turned into the mec route.
C38_NoTokenDecided ==
    /\ FallbackAnswered
    /\ in_llm.content = "Recomece a pergunta"
    /\ Decision.reason = "llm_classifier" /\ Decision.route = "mec"

\* C38: an answer whose token names mec was mapped to the direct route.
C38_OtherRouteThanNamed ==
    /\ FallbackAnswered
    /\ in_llm.content = "MEC, não DIRECT"
    /\ Decision.reason = "llm_classifier" /\ Decision.route = "direct"


(***************************************************************************)
(* Properties of _compose_state_labels (checked under SpecLabels)          *)
(***************************************************************************)

Written == ToSet(out_labels[1])

\* C10: the label list written is (current labels minus the managed labels)
\* union the target labels: every non-managed label of the snapshot is kept,
\* no non-managed label is added, every managed label outside the target is
\* removed, and no label is listed twice.
C10_ComposeKeepsExternalLabels ==
    out_labels # None =>
        /\ Written = (in_labels \ _managed_labels) \cup in_target
        /\ \A l \in in_labels \ _managed_labels : l \in Written
        /\ \A l \in Written \ _managed_labels : l \in in_labels
        /\ \A l \in _managed_labels \ in_target : l \notin Written
        /\ Len(out_labels[1]) = Cardinality(Written)

\* C10 witness: a snapshot with an external label and stale managed labels
\* was recomposed for the human target.
C10_Witness ==
    /\ out_labels # None
    /\ in_labels = {"vip", CHATWOOT_LABEL_IA_MEC, CHATWOOT_LABEL_IA_FALHA}
    /\ in_target = {CHATWOOT_LABEL_HUMANO}
    /\ out_labels[1] = <<"humano", "vip">>


(***************************************************************************)
(* Properties of handle_incoming (checked under Spec)                      *)
(***************************************************************************)

\* The requests handle_incoming itself has made in the running dispatch (the
\* apology is process_and_reply's).
Dispatching == decision # None
Replies ==
    {n \in DOMAIN calls : /\ calls[n].method = "send_message"
                          /\ calls[n].content # ApologyMessage}
LabelWrites == {n \in DOMAIN calls : calls[n].method = "set_labels"}
MetaWrites == {n \in DOMAIN calls : calls[n].method = "update_conversation_meta"}
ManagedWritten(n) == ToSet(calls[n].labels) \cap _managed_labels

\* C7 as stated (Scenario A): for the message "Bom dia!" in a conversation
\* with no labels and the semantic fallback disabled, the route is direct,
\* the reply is the greeting-specific canned text and the labels written are
\* exactly {ia_orquestrador}.
C7_ScenarioA ==
    (Dispatching /\ msg_content = "Bom dia!" /\ label_set = {}
     /\ ~_classifier_agent) =>
        /\ decision[1].route = "direct"
        /\ \A n \in Replies :
               calls[n].content =
                   "Olá! Posso ajudar com dúvidas acadêmicas e regulatórias. Qual sua pergunta?"
        /\ \A n \in LabelWrites :
               ToSet(calls[n].labels) = {CHATWOOT_LABEL_IA_ORQUESTRADOR}

\* C7, what the code does with Scenario A: the normalized text "bom dia!"
\* is no member of the smalltalk vocabulary, so the dispatch is on the
\* knowledge route by default and the label ia_orquestrador is never written.
C7_ScenarioAGoesToKnowledgeRoute ==
    (Dispatching /\ msg_content = "Bom dia!" /\ label_set = {}
     /\ ~_classifier_agent) =>
        /\ decision[1].route = "mec"
        /\ decision[1].reason = "default_mec_route"
        /\ \A n \in LabelWrites :
               CHATWOOT_LABEL_IA_ORQUESTRADOR \notin ToSet(calls[n].labels)

\* Scenario A ran to its end on the knowledge route and wrote its labels.
C7_Reached ==
    /\ pc = "done" /\ msg_content = "Bom dia!" /\ label_set = {}
    /\ ~_classifier_agent
    /\ LabelWrites # {}

\* The knowledge service has answered the running dispatch.
MecAnswered ==
    /\ Dispatching /\ decision[1].route = "mec"
    /\ specialist_result # None
ConfidenceReachesThreshold ==
    specialist_result[1].confidence >= ORCHESTRATOR_CONFIDENCE_THRESHOLD

\* C8: on the mec route the confidence compared with the threshold decides
\* everything. At or above the threshold the answer is the reply, the managed
\* labels written are exactly {ia_mec} and handled_by is agent_2_mec with no
\* team; below it the reply is the escalation text, the managed labels written
\* are exactly {humano, ia_falha}, handled_by is
\* human_team_after_low_confidence and the attribute update carries the
\* resolved team id. A label write the platform accepted is what the
\* conversation then carries.
C8_ConfidenceThresholdDecides ==
    MecAnswered =>
        /\ \A n \in Replies :
               calls[n].content = (IF ConfidenceReachesThreshold
                                   THEN specialist_result[1].answer
                                   ELSE LowConfidenceMessage)
        /\ \A n \in LabelWrites :
               /\ ManagedWritten(n) =
                      (IF ConfidenceReachesThreshold
                       THEN {CHATWOOT_LABEL_IA_MEC}
                       ELSE {CHATWOOT_LABEL_HUMANO, CHATWOOT_LABEL_IA_FALHA})
               /\ ToSet(calls[n].labels) \ _managed_labels
                      = label_set \ _managed_labels
               /\ calls[n].outcome = "ok" =>
                      platform_labels = ToSet(calls[n].labels)
        /\ \A n \in MetaWrites :
               /\ calls[n].custom_attributes[1].handled_by =
                      (IF ConfidenceReachesThreshold THEN "agent_2_mec"
                       ELSE "human_team_after_low_confidence")
               /\ calls[n].custom_attributes[1].orchestrator_confidence =
                      specialist_result[1].confidence
               /\ calls[n].team_id =
                      (IF ~ConfidenceReachesThreshold
                          /\ Truthy(resolved_human_team_id)
                       THEN resolved_human_team_id ELSE None)
               /\ calls[n].clear_assignment = ConfidenceReachesThreshold

\* C8 witness: a confidence equal to the threshold; the answer was sent, the
\* labels and the attributes were written and the dispatch has ended.
C8_Witness ==
    /\ pc = "done" /\ MecAnswered /\ error = None
    /\ specialist_result[1].confidence = ORCHESTRATOR_CONFIDENCE_THRESHOLD
    /\ Replies # {} /\ LabelWrites # {} /\ MetaWrites # {}
    /\ CHATWOOT_LABEL_IA_MEC \in platform_labels

\* C8, the other side: a confidence below the threshold escalated with a
\* resolved team and the dispatch has ended.
C8_WitnessEscalated ==
    /\ pc = "done" /\ MecAnswered /\ error = None
    /\ specialist_result[1].confidence < ORCHESTRATOR_CONFIDENCE_THRESHOLD
    /\ Truthy(resolved_human_team_id)
    /\ \E n \in MetaWrites : calls[n].team_id = resolved_human_team_id
    /\ {CHATWOOT_LABEL_HUMANO, CHATWOOT_LABEL_IA_FALHA} \subseteq platform_labels


\* C11: the managed labels in every label list passed to set_labels are
\* exactly one of {humano}, {ia_orquestrador}, {ia_mec}, {humano, ia_falha},
\* whatever the conversation carried before; a list the platform accepted is
\* what the conversation carries afterwards.
C11_OneManagedCombination ==
    /\ \A n \in LabelWrites :
           ManagedWritten(n) \in
               {{CHATWOOT_LABEL_HUMANO}, {CHATWOOT_LABEL_IA_ORQUESTRADOR},
                {CHATWOOT_LABEL_IA_MEC},
                {CHATWOOT_LABEL_HUMANO, CHATWOOT_LABEL_IA_FALHA}}
    /\ platform_labels \cap _managed_labels \in
           {{}, {CHATWOOT_LABEL_HUMANO}, {CHATWOOT_LABEL_IA_ORQUESTRADOR},
            {CHATWOOT_LABEL_IA_MEC},
            {CHATWOOT_LABEL_HUMANO, CHATWOOT_LABEL_IA_FALHA}}

\* C11 witness: a conversation escalated by an earlier dispatch (humano and
\* ia_falha in the snapshot) was answered by the knowledge route, which wrote
\* ia_mec and neither of the two.
C11_Witness ==
    /\ dispatches = 2
    /\ {CHATWOOT_LABEL_HUMANO, CHATWOOT_LABEL_IA_FALHA} \subseteq label_set
    /\ \E n \in LabelWrites :
           /\ ManagedWritten(n) = {CHATWOOT_LABEL_IA_MEC}
           /\ calls[n].outcome = "ok"

\* The position of a side effect in the order of handle_incoming.
Rank(method) ==
    CASE method = "send_message" -> 1
      [] method = "set_labels" -> 2
      [] method = "update_conversation_meta" -> 3
      [] method = "assign_team" -> 4
      [] method = "set_conversation_open" -> 5

\* The requests of handle_incoming (all but the apology of its caller).
HandlerCalls ==
    {n \in DOMAIN calls : ~(/\ calls[n].method = "send_message"
                            /\ calls[n].content = ApologyMessage)}
Methods == {calls[n].method : n \in HandlerCalls}
CompletedWithoutError == pc = "done" /\ Dispatching /\ error = None

\* C12: the requests of one handle_incoming call are made in the order
\* reply, label update, attribute update, team assignment, reopen, each at
\* most once; a call that completes without error has made the label and the
\* attribute update and ends with the reopen; the assignment is made exactly
\* on the human route with a team id, the reply on every route but a human
\* route not decided by an explicit request.
C12_FixedOrder ==
    /\ \A m, n \in HandlerCalls :
           m < n => Rank(calls[m].method) < Rank(calls[n].method)
    /\ CompletedWithoutError =>
           /\ {"set_labels", "update_conversation_meta",
               "set_conversation_open"} \subseteq Methods
           /\ calls[Len(calls)].method = "set_conversation_open"
           /\ ("assign_team" \in Methods) <=>
                  (Branch = "human" /\ Truthy(resolved_human_team_id))
           /\ ("send_message" \in Methods) <=>
                  ~(/\ Branch = "human"
                    /\ decision[1].reason # "explicit_human_request")

\* C12 witness: a human-route dispatch made all five requests.
C12_Witness ==
    /\ CompletedWithoutError
    /\ [n \in DOMAIN calls |-> calls[n].method] =
           <<"send_message", "set_labels", "update_conversation_meta",
             "assign_team", "set_conversation_open">>

\* A request of handle_incoming did not succeed.
SomeCallFailed == \E n \in HandlerCalls : calls[n].outcome # "ok"
KnowledgeQueryRaised ==
    /\ Dispatching /\ decision[1].route = "mec"
    /\ specialist_result = None /\ error # None

\* C13 as stated: on every route a failed side effect does not keep the later
\* ones from being made: a dispatch in which a request failed has, when it
\* ends, made the label update, the attribute update and the reopen.
C13_EveryRouteIndependent ==
    (pc = "done" /\ Dispatching /\ SomeCallFailed) =>
        {"set_labels", "update_conversation_meta", "set_conversation_open"}
            \subseteq Methods

\* C13, what the code does: the claim holds on the human route; on the
\* direct and the mec route a failure that raises is the last request of
\* handle_incoming.
C13_OnlyHumanRouteIndependent ==
    (pc = "done" /\ Dispatching /\ SomeCallFailed) =>
        IF Branch = "human"
        THEN {"set_labels", "update_conversation_meta", "set_conversation_open"}
                 \subseteq Methods
        ELSE \A n \in HandlerCalls :
                 (/\ calls[n].outcome # "ok"
                  /\ ~(/\ calls[n].method = "set_labels"
                       /\ calls[n].outcome = "status_error")) =>
                     \A m \in HandlerCalls : m <= n

\* C13: a direct-route dispatch whose reply failed has ended without any
\* other request of handle_incoming.
C13_Reached ==
    /\ pc = "done" /\ Branch = "direct"
    /\ calls # <<>> /\ calls[1].outcome # "ok"
    /\ Methods = {"send_message"}

\* C14 as stated: when the processing of a message ends, at least one
\* outgoing message has been attempted.
C14_SomeReplyAttempted ==
    (pc = "done" /\ Dispatching) =>
        \E n \in DOMAIN calls : calls[n].method = "send_message"

\* C14, what the code does: no message is attempted exactly when the human
\* route was not decided by an explicit request and nothing raised, or when
\* what raised before any reply is an HTTPStatusError.
C14_SilentDispatches ==
    (pc = "done" /\ Dispatching) =>
        ((\A n \in DOMAIN calls : calls[n].method # "send_message") <=>
            \/ /\ Branch = "human"
               /\ decision[1].reason # "explicit_human_request"
            \/ /\ KnowledgeQueryRaised
               /\ error = Some("HTTPStatusError"))

\* C14: a dispatch on the human route has ended with every request made and
\* no message to the user.
C14_Reached ==
    /\ CompletedWithoutError /\ Branch = "human"
    /\ "set_conversation_open" \in Methods
    /\ "send_message" \notin Methods

\* C15 as stated: when the knowledge query raises, handle_incoming makes no
\* request and process_and_reply then sends the apology, whatever was raised.
C15_ApologyWhateverRaised ==
    KnowledgeQueryRaised =>
        /\ HandlerCalls = {}
        /\ pc = "done" =>
               /\ Len(calls) = 1
               /\ calls[1].method = "send_message"
               /\ calls[1].content = ApologyMessage

\* C15, what the code does: handle_incoming makes no request; the apology
\* is attempted unless what was raised is an HTTPStatusError, which is only
\* logged.
C15_ApologyUnlessHttpStatusError ==
    KnowledgeQueryRaised =>
        /\ HandlerCalls = {}
        /\ pc = "done" =>
               IF error = Some("HTTPStatusError") THEN calls = <<>>
               ELSE /\ Len(calls) = 1
                    /\ calls[1].content = ApologyMessage

\* C15: the knowledge query raised an HTTPStatusError and the processing
\* has ended without any request.
C15_Reached ==
    /\ KnowledgeQueryRaised /\ pc = "done"
    /\ error = Some("HTTPStatusError") /\ calls = <<>>


(***************************************************************************)
(* Properties of chatwoot_webhook (checked under SpecWebhook)              *)
(***************************************************************************)

\* The deliveries whose message id went through the dedup check.
Checked == {j \in DOMAIN handled : handled[j].checked}

\* The check recorded the id: it was not a duplicate.
Recorded(i) == i \in Checked /\ ~handled[i].duplicate

SameMessage(i, j) == handled[i].payload.id = handled[j].payload.id

\* Seconds between the checks of two deliveries.
Elapsed(i, j) == handled[j].at - handled[i].at

\* C16: a check of a message id answers "duplicate" exactly when an earlier
\* check recorded the same id no more than RESPONSE_CACHE_TTL_SECONDS
\* before: the first check of an id records it, a check within the window
\* of the recording is a duplicate, and a check after the window records
\* again, duplicate hits in between notwithstanding.
C16_DedupWindow ==
    \A j \in Checked :
        handled[j].duplicate <=>
            \E i \in 1..(j - 1) :
                /\ Recorded(i)
                /\ SameMessage(i, j)
                /\ Elapsed(i, j) <= RESPONSE_CACHE_TTL_SECONDS

\* An id is recorded, hit within the window, and recorded again once the
\* window of the first recording is over although the hit is more recent.
C16_Witness ==
    \E i, j, k \in Checked :
        /\ i < j /\ j < k
        /\ SameMessage(i, j) /\ SameMessage(j, k)
        /\ Recorded(i) /\ handled[j].duplicate /\ Recorded(k)
        /\ Elapsed(i, k) > RESPONSE_CACHE_TTL_SECONDS
        /\ Elapsed(j, k) <= RESPONSE_CACHE_TTL_SECONDS

\* C17: whatever the order in which overlapping deliveries resume, two
\* tasks enqueued for the same message id are more than
\* RESPONSE_CACHE_TTL_SECONDS apart: within one window process_and_reply is
\* enqueued at most once for an id.
C17_EnqueuedOncePerWindow ==
    \A a, b \in DOMAIN background_tasks :
        /\ a < b
        /\ background_tasks[a].id # None
        /\ background_tasks[a].id = background_tasks[b].id
        => background_tasks[b].at - background_tasks[a].at
               > RESPONSE_CACHE_TTL_SECONDS

\* Two deliveries of one id were both waiting for their body; the one that
\* arrived later resumed first and was enqueued, the other was answered as
\* a duplicate, and one task exists for the id.
C17_Witness ==
    \E i, j \in Checked :
        /\ i < j
        /\ handled[i].n > handled[j].n
        /\ SameMessage(i, j)
        /\ handled[i].enqueued
        /\ handled[j].duplicate
        /\ Cardinality({a \in DOMAIN background_tasks :
                           background_tasks[a].id = handled[i].payload.id}) = 1

\* A delivery the handler read that is not a created, incoming, public
\* message: another event, another message type, or a private note.
Filtered(i) ==
    /\ handled[i].payload.token_ok /\ handled[i].payload.json_ok
    /\ \/ handled[i].payload.event # "message_created"
       \/ handled[i].payload.message_type # "incoming"
       \/ handled[i].payload.private
Passed(i) ==
    /\ handled[i].payload.token_ok /\ handled[i].payload.json_ok
    /\ handled[i].payload.event = "message_created"
    /\ handled[i].payload.message_type = "incoming"
    /\ ~handled[i].payload.private

\* C30: a delivery of another event kind, of another message type or of a
\* private message is answered ok without a look at the dedup registry and
\* without a task; every id in the registry and every task added comes from
\* a delivery of a created, incoming, public message.
C30_OnlyIncomingPublicMessages ==
    /\ \A i \in DOMAIN handled :
           Filtered(i) =>
               /\ handled[i].status = 200
               /\ ~handled[i].checked
               /\ ~handled[i].duplicate
               /\ ~handled[i].enqueued
    /\ \A k \in DOMAIN background_tasks :
           \E i \in DOMAIN handled :
               /\ handled[i].n = background_tasks[k].n
               /\ Passed(i) /\ handled[i].enqueued
    /\ \A id \in DOMAIN _processed_message_ids :
           \E i \in DOMAIN handled :
               /\ Passed(i) /\ handled[i].checked
               /\ handled[i].payload.id = Some(id)
               /\ handled[i].at >= _processed_message_ids[id]

\* C30 witness: an outgoing message, a private note and another event, all
\* with a message id and a text, were answered ok; the registry is empty and
\* no task was added.
C30_Witness ==
    /\ Len(handled) = MaxDeliveries
    /\ \A i \in DOMAIN handled : Filtered(i) /\ handled[i].status = 200
    /\ \E i \in DOMAIN handled : handled[i].payload.message_type = "outgoing"
    /\ \E i \in DOMAIN handled : handled[i].payload.private
    /\ \E i \in DOMAIN handled : handled[i].payload.event = "conversation_updated"
    /\ \A i \in DOMAIN handled : handled[i].payload.id = Some(1)
    /\ _processed_message_ids = EmptyDict
    /\ background_tasks = <<>>

\* C30: a private note came after the same message id was recorded for an
\* incoming message and is not even reported as a duplicate.
C30_FilteredBeforeDedup ==
    \E i, j \in DOMAIN handled :
        /\ i < j /\ Passed(i) /\ handled[i].checked
        /\ Filtered(j) /\ handled[j].payload.id = handled[i].payload.id
        /\ ~handled[j].duplicate

\* The ok response of delivery n, given with its processing queued.
Acknowledged(n) ==
    \E i \in DOMAIN handled :
        /\ handled[i].n = n /\ handled[i].status = 200 /\ handled[i].enqueued
TaskStarts(k) ==
    /\ k \in DOMAIN background_tasks
    /\ ~background_tasks[k].ran /\ background_tasks'[k].ran

\* C31: the ok response never waits on the processing. In the step that
\* queues process_and_reply for a delivery the response of that delivery is
\* given and the processing has not started; the processing starts in a later
\* step, which finds the response given and changes no response; responses
\* once given stay as they are, whatever the processing does and whether or
\* not it ever runs.
C31_AckBeforeProcessing ==
    [][/\ \A k \in DOMAIN background_tasks' :
              k \notin DOMAIN background_tasks =>
                  /\ ~background_tasks'[k].ran
                  /\ \E i \in DOMAIN handled' :
                         /\ handled'[i].n = background_tasks'[k].n
                         /\ handled'[i].status = 200
                         /\ handled'[i].enqueued
       /\ \A k \in DOMAIN background_tasks :
              TaskStarts(k) =>
                  /\ Acknowledged(background_tasks[k].n)
                  /\ handled' = handled
                  /\ _processed_message_ids' = _processed_message_ids
       /\ Len(handled') >= Len(handled)
       /\ SubSeq(handled', 1, Len(handled)) = handled]_vars

\* C31 witness: every delivery is answered; the processing of one has run
\* and that of another, acknowledged as well, has not started.
C31_Witness ==
    /\ in_flight = {} /\ deliveries = MaxDeliveries
    /\ \E k, m \in DOMAIN background_tasks :
           /\ background_tasks[k].ran /\ Acknowledged(background_tasks[k].n)
           /\ ~background_tasks[m].ran /\ Acknowledged(background_tasks[m].n)

\* The delivery was not enqueued and no task exists for it.
NotProcessed(j) ==
    /\ ~handled[j].enqueued
    /\ \A k \in DOMAIN background_tasks : background_tasks[k].n # handled[j].n

\* C37: a message id is recorded by the check before any task is added for
\* it and stays recorded for the TTL whatever becomes of its delivery: the
\* id of every task was recorded by the delivery that added it, a recorded
\* id is in the registry for as long as the TTL has not passed, and every
\* later delivery of that id within the TTL is answered as a duplicate and
\* not processed, whether the first one was left aside for an empty
\* content or a missing conversation id, or its processing failed.
C37_RecordedWhateverHappens ==
    /\ \A k \in DOMAIN background_tasks :
           background_tasks[k].id # None =>
               \E i \in Checked :
                   /\ Recorded(i)
                   /\ handled[i].n = background_tasks[k].n
                   /\ handled[i].at = background_tasks[k].at
    /\ \A i \in Checked :
           Recorded(i) /\ clock - handled[i].at <= RESPONSE_CACHE_TTL_SECONDS
               => /\ handled[i].payload.id[1] \in DOMAIN _processed_message_ids
                  /\ _processed_message_ids[handled[i].payload.id[1]]
                         >= handled[i].at
    /\ \A i, j \in DOMAIN handled :
           /\ i < j /\ Recorded(i) /\ Passed(j) /\ SameMessage(i, j)
           /\ Elapsed(i, j) <= RESPONSE_CACHE_TTL_SECONDS
           => /\ handled[j].duplicate
              /\ handled[j].status = 200
              /\ NotProcessed(j)

\* C37 witness: the first delivery of an id had an empty content and was
\* left aside; the same id came again within the TTL with a text and a
\* conversation and was answered as a duplicate.
C37_Witness ==
    \E i, j \in DOMAIN handled :
        /\ i < j /\ Recorded(i) /\ SameMessage(i, j)
        /\ handled[i].payload.content = "" /\ NotProcessed(i)
        /\ handled[j].payload.content # "" /\ handled[j].payload.conversation
        /\ handled[j].duplicate /\ NotProcessed(j)

\* C37: the same with a first delivery without a conversation id.
C37_WitnessNoConversation ==
    \E i, j \in DOMAIN handled :
        /\ i < j /\ Recorded(i) /\ SameMessage(i, j)
        /\ ~handled[i].payload.conversation /\ NotProcessed(i)
        /\ handled[j].payload.content # "" /\ handled[j].payload.conversation
        /\ handled[j].duplicate /\ NotProcessed(j)

\* C37: the processing of the first delivery failed, and the redelivery of
\* its id was answered as a duplicate.
C37_WitnessFailed ==
    \E i, j \in DOMAIN handled, k \in DOMAIN background_tasks :
        /\ i < j /\ Recorded(i) /\ SameMessage(i, j)
        /\ background_tasks[k].n = handled[i].n
        /\ background_tasks[k].failed
        /\ Len(background_tasks) = 1
        /\ handled[j].duplicate /\ NotProcessed(j)
        /\ handled[j].payload.content # "" /\ handled[j].payload.conversation


(***************************************************************************)
(* Properties of the response cache (checked under SpecCache)              *)
(***************************************************************************)

Entries(cache) == ToSet(cache)
KeysOf(cache) == {cache[i].key : i \in DOMAIN cache}

\* The last call was _cache_answer / _get_cached_answer.
Stored == cache_call # None /\ cache_call[1].op = "_cache_answer"
Looked == cache_call # None /\ cache_call[1].op = "_get_cached_answer"

\* The cache the last call found and the cache it left.
Before == Entries(cache_call[1].before)
After == Entries(_response_cache)
AtCapacity == Len(cache_call[1].before) >= CacheCapacity

\* The key of the last call and the entry a _cache_answer call writes.
CallKey == <<cache_call[1].session_id, _normalize_question(cache_call[1].question)>>
WrittenEntry ==
    [key |-> CallKey, answer |-> cache_call[1].answer, ts |-> cache_call[1].now]

\* C18: after any sequence of _cache_answer and _get_cached_answer calls
\* the response cache holds no more entries than the configured maximum.
C18_CacheWithinCapacity == Len(_response_cache) <= CacheCapacity

\* A new key was stored in a full cache, which is full afterwards.
C18_Witness ==
    /\ Stored
    /\ Len(cache_call[1].before) = CacheCapacity
    /\ CallKey \notin KeysOf(cache_call[1].before)
    /\ WrittenEntry \in After
    /\ Len(_response_cache) = CacheCapacity

\* An entry of smallest timestamp in the cache the call found.
Oldest(o) == o \in Before /\ \A e \in Before : o.ts <= e.ts

\* Of the entries the call found, o is the only one removed: every other
\* one that is not under the key being written is there unchanged, and o is
\* gone unless the call wrote its key again.
EvictedOnly(o) ==
    /\ o.key # CallKey => o.key \notin KeysOf(_response_cache)
    /\ {e \in Before : e # o /\ e.key # CallKey} \subseteq After

\* No entry the call found is removed.
NothingRemoved == {e \in Before : e.key # CallKey} \subseteq After

\* C19 as stated: every _cache_answer call on a full cache removes exactly
\* one entry, one of smallest timestamp, and a call below capacity removes
\* nothing.
C19_EveryCallAtCapacityEvicts ==
    Stored =>
        IF AtCapacity
        THEN \E o \in Before : Oldest(o) /\ EvictedOnly(o)
        ELSE NothingRemoved

\* C19, amended: a _cache_answer call with a non-empty answer on a full
\* cache removes exactly one entry, one of smallest timestamp, leaves the
\* others unchanged and writes its own; below capacity it removes nothing;
\* with an empty answer it leaves the cache as it found it, full or not.
C19_StoringAtCapacityEvicts ==
    Stored =>
        IF cache_call[1].answer = "" THEN _response_cache = cache_call[1].before
        ELSE /\ WrittenEntry \in After
             /\ KeysOf(_response_cache) \subseteq KeysOf(cache_call[1].before) \cup {CallKey}
             /\ IF AtCapacity
                THEN \E o \in Before : Oldest(o) /\ EvictedOnly(o)
                ELSE NothingRemoved

\* A full cache whose entries differ in age received a new key: the oldest
\* entry is gone and the younger one is kept.
C19_Witness ==
    /\ Stored
    /\ AtCapacity
    /\ cache_call[1].answer # ""
    /\ CallKey \notin KeysOf(cache_call[1].before)
    /\ \E o, e \in Before :
          /\ o.ts < e.ts
          /\ o.key \notin KeysOf(_response_cache)
          /\ e \in After

\* A full cache was handed an empty answer and kept all its entries.
C19_EmptyAnswerAtCapacity ==
    /\ Stored
    /\ AtCapacity
    /\ cache_call[1].answer = ""
    /\ _response_cache = cache_call[1].before

\* C20: an answer returned by _get_cached_answer for a session was stored
\* by _cache_answer under that same session, for a question equal after
\* normalisation: no answer stored only under another session is returned.
C20_SessionsDoNotShare ==
    Looked /\ cache_call[1].returned # None =>
        \E stored \in stored_answers :
            /\ stored[1] = cache_call[1].session_id
            /\ _normalize_question(stored[2]) = _normalize_question(cache_call[1].question)
            /\ stored[3] = cache_call[1].returned[1]

\* Two sessions stored different answers to the same question, and a
\* lookup by one of them returned its own.
C20_Witness ==
    /\ Looked
    /\ cache_call[1].returned # None
    /\ \E own, other \in stored_answers :
          /\ own[1] = cache_call[1].session_id
          /\ other[1] # own[1]
          /\ _normalize_question(own[2]) = _normalize_question(other[2])
          /\ _normalize_question(own[2]) = _normalize_question(cache_call[1].question)
          /\ own[3] = cache_call[1].returned[1]
          /\ other[3] # own[3]
          /\ other[3] # ""


\* The entries the last call found under its key, and their age at the call.
Found == {e \in Before : e.key = CallKey}
Age(e) == cache_call[1].now - e.ts

\* C21: _get_cached_answer returns the answer stored under the key while
\* its age is within RESPONSE_CACHE_TTL_SECONDS and leaves the cache as it
\* is; for an entry older than the TTL it returns absent and removes that
\* entry and no other; for a key not in the cache it returns absent.
C21_ExpiryOnLookup ==
    Looked =>
        /\ Found = {} =>
              /\ cache_call[1].returned = None
              /\ _response_cache = cache_call[1].before
        /\ \A e \in Found :
              IF Age(e) > RESPONSE_CACHE_TTL_SECONDS
              THEN /\ cache_call[1].returned = None
                   /\ After = Before \ {e}
                   /\ Len(_response_cache) = Len(cache_call[1].before) - 1
              ELSE /\ cache_call[1].returned = Some(e.answer)
                   /\ _response_cache = cache_call[1].before

\* An entry was returned at the age of the TTL exactly.
C21_WitnessLive ==
    /\ Looked
    /\ \E e \in Found : Age(e) = RESPONSE_CACHE_TTL_SECONDS
    /\ cache_call[1].returned # None

\* An entry one second older than the TTL was looked up: absent, and the
\* other entry of the cache is still there.
C21_Witness ==
    /\ Looked
    /\ \E e \in Found : Age(e) = RESPONSE_CACHE_TTL_SECONDS + 1
    /\ cache_call[1].returned = None
    /\ Len(cache_call[1].before) = 2
    /\ Len(_response_cache) = 1
    /\ After \subseteq Before

\* C22: no entry of the response cache has an empty answer, and a
\* _cache_answer call with an empty answer leaves the cache as it found it:
\* nothing inserted, nothing evicted.
C22_NoEmptyAnswerCached ==
    /\ \A e \in After : e.answer # ""
    /\ Stored /\ cache_call[1].answer = "" =>
           _response_cache = cache_call[1].before

\* A full cache holding an answer under a key was handed an empty answer
\* for that key: the answer and the rest of the cache are as before.
C22_Witness ==
    /\ Stored
    /\ cache_call[1].answer = ""
    /\ Found # {}
    /\ Len(cache_call[1].before) = CacheCapacity
    /\ _response_cache = cache_call[1].before


(***************************************************************************)
(* Properties of resolve_team_id (checked under SpecResolve)               *)
(***************************************************************************)

\* The last call was resolve_team_id.
Resolved == cache_call # None /\ cache_call[1].op = "resolve_team_id"

\* The numeric strings among the queries, with the number each one writes.
NumericQueries == {<<"7", 7>>, <<" 42 ", 42>>}

\* C23: resolve_team_id on a numeric string returns that number, lists no
\* teams and leaves the team cache as it is.
C23_NumericIsReturned ==
    Resolved =>
        \A numeric \in NumericQueries :
            cache_call[1].query = Some(numeric[1]) =>
                /\ cache_call[1].returned = Some(numeric[2])
                /\ ~cache_call[1].listed
                /\ _team_cache = cache_call[1].before

\* A numeric string was resolved on a client whose cache holds teams, at a
\* time when the listing would have answered.
C23_Witness ==
    /\ Resolved
    /\ cache_call[1].query = Some(" 42 ")
    /\ cache_call[1].returned = Some(42)
    /\ cache_call[1].listing # None
    /\ DOMAIN cache_call[1].before # {}
    /\ _team_cache = cache_call[1].before


\* A name, not a number: what resolve_team_id looks up.
NamedQuery(query) ==
    query # None /\ Strip(query[1]) # "" /\ ~IsDigit(Strip(query[1]))

\* The keys a team is stored under: its name case-folded and accent-folded.
TeamKeys(team) == {Lower(Strip(team.name)), _fold_text(team.name)}

\* The listed teams whose folded name is the folded query, and those whose
\* folded name holds it or is held by it.
ExactMatches(teams, query) ==
    {n \in DOMAIN teams : _fold_text(teams[n].name) = _fold_text(query[1])}
PartialMatches(teams, query) ==
    {n \in DOMAIN teams :
        \/ Contains(_fold_text(teams[n].name), _fold_text(query[1]))
        \/ Contains(_fold_text(query[1]), _fold_text(teams[n].name))}

\* The first n listed teams are in the cache under both their keys.
StoredUpTo(teams, n) ==
    \A m \in 1..n : \A key \in TeamKeys(teams[m]) :
        Get(_team_cache, key) = Some(teams[m].id)

\* The last call looked a name up, missed the cache and was answered the
\* list teams; query and teams are read as they are written in the model.
MissedAndListed(query, teams) ==
    /\ Resolved
    /\ cache_call[1].query = query
    /\ cache_call[1].listing = Some(teams)
    /\ NamedQuery(query)
    /\ Get(cache_call[1].before, Lower(Strip(query[1]))) = None

\* The id the claim names: the exact match, else the first partial match.
MatchedId(teams, query) ==
    IF ExactMatches(teams, query) # {}
    THEN Some(teams[Min(ExactMatches(teams, query))].id)
    ELSE IF PartialMatches(teams, query) # {}
    THEN Some(teams[Min(PartialMatches(teams, query))].id)
    ELSE None

\* C24 as stated: on a cache miss the teams are listed, every listed team
\* is stored under both its names, and the id returned is that of the
\* exact match, else of the first partial match, else absent.
C24_ListsStoresAndMatches ==
    \A query \in ResolveQueries, listing \in ResolveListings \ {None} :
        MissedAndListed(query, listing[1]) =>
            /\ cache_call[1].listed
            /\ StoredUpTo(listing[1], Len(listing[1]))
            /\ cache_call[1].returned = MatchedId(listing[1], query)

\* C24, amended: on a cache miss the teams are listed; the teams up to and
\* including the first exact match (all of them when there is none) are
\* stored under both their names and the cache gains no other key; the id
\* returned is that of the exact match, else of the first partial match,
\* else the id the cache holds under the folded query, else absent.
C24_ListsStoresUpToMatch ==
    \A query \in ResolveQueries, listing \in ResolveListings \ {None} :
        MissedAndListed(query, listing[1]) =>
            LET teams == listing[1]
                last == IF ExactMatches(teams, query) = {} THEN Len(teams)
                        ELSE Min(ExactMatches(teams, query))
            IN  /\ cache_call[1].listed
                /\ StoredUpTo(teams, last)
                /\ DOMAIN _team_cache =
                       DOMAIN cache_call[1].before
                           \cup UNION {TeamKeys(teams[m]) : m \in 1..last}
                /\ \A key \in DOMAIN cache_call[1].before :
                       key \notin UNION {TeamKeys(teams[m]) : m \in 1..last}
                           => _team_cache[key] = cache_call[1].before[key]
                /\ cache_call[1].returned =
                       IF MatchedId(teams, query) # None THEN MatchedId(teams, query)
                       ELSE Get(_team_cache, _fold_text(query[1]))

\* A name was resolved by its exact match, listed second after a partial
\* match: the exact match is returned and the team listed third is not
\* stored.
C24_Witness ==
    /\ MissedAndListed(Some("Financeiro"), ReorganisedTeams)
    /\ cache_call[1].returned = Some(2)
    /\ "suporte financeiro" \in DOMAIN _team_cache
    /\ "suporte" \notin DOMAIN _team_cache

\* A name no listed team matches was given the id of a team that is no
\* longer listed, cached under the folded name by an earlier call.
C24_StaleIdReturned ==
    /\ MissedAndListed(Some("Juridíco"), ReorganisedTeams)
    /\ cache_call[1].returned = Some(3)


(***************************************************************************)
(* Further properties of handle_incoming (checked under Spec)              *)
(***************************************************************************)

\* handle_incoming has just resolved the team: it is at the first step of
\* its branch.
TeamJustResolved ==
    Dispatching /\ calls = <<>> /\ pc \in {"answer", "send_message", "set_labels"}

\* C25: a team that is not resolved leaves the team id absent and raises
\* nothing, and a human-route dispatch that ends with an absent team id has
\* issued the label update, the attribute update and the reopen, and no
\* team assignment.
C25_AbsentTeamDoesNotBlock ==
    /\ TeamJustResolved => error = None
    /\ pc = "done" /\ Branch = "human" /\ resolved_human_team_id = None =>
           /\ error = None
           /\ {"set_labels", "update_conversation_meta", "set_conversation_open"}
                  \subseteq Methods
           /\ "assign_team" \notin Methods

\* A team was selected, the listing failed with nothing cached and no
\* fallback id is configured: the human route ran to its end without the
\* assignment.
C25_Witness ==
    /\ pc = "done"
    /\ Branch = "human"
    /\ selected_human_team # None
    /\ resolved_human_team_id = None
    /\ _team_cache = EmptyDict
    /\ "set_conversation_open" \in Methods
    /\ "assign_team" \notin Methods

\* The human route of handle_incoming, lines 664-710.
OnHumanRoute == Dispatching /\ decision[1].route = "human"
HumanRouteDone == OnHumanRoute /\ pc = "done"
TeamAssignments == {n \in DOMAIN calls : calls[n].method = "assign_team"}

\* C28: on the human route the confirmation reply is sent if and only if
\* the reason of the decision is explicit_human_request; the labels written
\* have exactly {humano} as their managed part; when a team id was resolved
\* the assignment to that team is attempted, whatever became of the requests
\* before it. Scenario B: "Quero falar com um atendente humano" in a
\* conversation with no labels is on the human route by an explicit request,
\* so it is confirmed, labelled humano and assigned.
C28_HumanRoute ==
    /\ OnHumanRoute =>
           /\ \A n \in Replies :
                  /\ calls[n].content = HumanConfirmationMessage
                  /\ decision[1].reason = "explicit_human_request"
           /\ \A n \in LabelWrites :
                  ManagedWritten(n) = {CHATWOOT_LABEL_HUMANO}
           /\ \A n \in TeamAssignments :
                  /\ resolved_human_team_id # None
                  /\ calls[n].team_id = resolved_human_team_id
    /\ HumanRouteDone =>
           /\ (Replies # {}) <=> (decision[1].reason = "explicit_human_request")
           /\ LabelWrites # {}
           /\ (TeamAssignments # {}) <=> (resolved_human_team_id # None)
           /\ error = None
    /\ (Dispatching /\ msg_content = "Quero falar com um atendente humano"
        /\ label_set = {}) =>
           /\ decision[1].route = "human"
           /\ decision[1].reason = "explicit_human_request"

\* C28 witness (Scenario B): the message of an explicit request in a
\* conversation with no labels was confirmed, labelled humano alone and
\* assigned to the resolved team.
C28_Witness ==
    /\ HumanRouteDone
    /\ msg_content = "Quero falar com um atendente humano"
    /\ label_set = {}
    /\ Replies # {}
    /\ \E n \in LabelWrites : ToSet(calls[n].labels) = {CHATWOOT_LABEL_HUMANO}
    /\ TeamAssignments # {}

\* C28, the other side: a human route the classifier model decided was
\* completed with no confirmation.
C28_UnconfirmedTransfer ==
    /\ HumanRouteDone
    /\ decision[1].reason # "explicit_human_request"
    /\ Replies = {}
    /\ LabelWrites # {}

\* C28: a failed request does not stop the human route.
C28_AssignedAfterFailure ==
    /\ HumanRouteDone
    /\ \E m \in HandlerCalls : calls[m].outcome # "ok"
    /\ TeamAssignments # {}

\* The reasons classify_intent gives with each route (lines 470-552).
ReasonsOf(route) ==
    CASE route = "human" ->
           {"explicit_human_request", "conversation_already_human",
            "llm_classifier"}
      [] route = "direct" -> {"smalltalk", "llm_classifier"}
      [] route = "mec" ->
           {"explicit_ai_request", "mec_domain_keyword", "default_mec_route",
            "llm_classifier"}

\* The requests of handle_incoming in the order it makes them when none of
\* them stops it: what a run on that branch, with that reason and that team
\* id, issues.
PlannedMethods(branch, reason, team_id) ==
    (IF branch = "human" /\ reason # "explicit_human_request"
     THEN <<>> ELSE <<"send_message">>)
    \o <<"set_labels", "update_conversation_meta">>
    \o (IF branch = "human" /\ team_id # None /\ team_id[1] # 0
        THEN <<"assign_team">> ELSE <<>>)
    \o <<"set_conversation_open">>

\* The methods of the requests handle_incoming has made, in their order (the
\* apology of its caller can only be the last request of the dispatch).
HandlerMethods ==
    [n \in 1..Cardinality(HandlerCalls) |-> calls[n].method]
StartOf(s, t) == Len(s) <= Len(t) /\ SubSeq(t, 1, Len(s)) = s
HandlerReturned == pc = "done" /\ Dispatching /\ error = None

\* The entry handled_by of the custom attributes of each branch.
HandledBy ==
    CASE Branch = "human" -> "human_team"
      [] Branch = "direct" -> "agent_1_orchestrator"
      [] Branch = "mec_high" -> "agent_2_mec"
      [] Branch = "mec_low" -> "human_team_after_low_confidence"
      [] OTHER -> ""

\* C29 as stated: the reason never decides what handle_incoming does, so a
\* run that returned has issued the sequence of requests a run with any other
\* reason of the same route would issue on the same branch with the same
\* team id and the same results.
C29_ReasonNeverDecides ==
    HandlerReturned =>
        \A reason \in ReasonsOf(decision[1].route) :
            HandlerMethods =
                PlannedMethods(Branch, reason, resolved_human_team_id)

\* C29, amended: the reason decides one thing outside the classifier, the
\* confirmation reply of the human route, sent for explicit_human_request
\* alone. With that exception the requests of a run are those of its branch
\* and team id, in the same order for every reason, and their payloads take
\* nothing from the reason but the custom attribute orchestrator_reason.
C29_ReasonGatesOnlyTheConfirmation ==
    Dispatching =>
        /\ decision[1].reason \in ReasonsOf(decision[1].route)
        /\ StartOf(HandlerMethods,
                   PlannedMethods(Branch, decision[1].reason,
                                  resolved_human_team_id))
        /\ HandlerReturned =>
               /\ HandlerMethods =
                      PlannedMethods(Branch, decision[1].reason,
                                     resolved_human_team_id)
               /\ \A reason \in ReasonsOf(decision[1].route) :
                      \/ HandlerMethods =
                             PlannedMethods(Branch, reason, resolved_human_team_id)
                      \/ /\ Branch = "human"
                         /\ (reason = "explicit_human_request") #
                                (decision[1].reason = "explicit_human_request")
        /\ \A n \in Replies :
               calls[n].content =
                   (CASE Branch = "human" -> HumanConfirmationMessage
                      [] Branch = "direct" -> DirectAnswers[msg_content]
                      [] Branch = "mec_high" -> specialist_result[1].answer
                      [] Branch = "mec_low" -> LowConfidenceMessage)
        /\ \A n \in LabelWrites :
               ManagedWritten(n) = TargetLabels
        /\ \A n \in MetaWrites :
               /\ calls[n].custom_attributes[1].orchestrator_reason =
                      decision[1].reason
               /\ calls[n].custom_attributes[1].orchestrator_route =
                      decision[1].route
               /\ calls[n].custom_attributes[1].handled_by = HandledBy
               /\ calls[n].custom_attributes[1].first_interaction =
                      force_ia_label
        /\ \A n \in TeamAssignments :
               calls[n].team_id = resolved_human_team_id

\* C29 witness: a run on the human route decided by an explicit request, in
\* a conversation with no labels and with every request succeeding, was
\* assigned to team 1 after the confirmation reply.
C29_Witness ==
    /\ HandlerReturned /\ Branch = "human"
    /\ decision[1].reason = "explicit_human_request"
    /\ label_set = {} /\ resolved_human_team_id = Some(1)
    /\ ~SomeCallFailed
    /\ HandlerMethods =
           <<"send_message", "set_labels", "update_conversation_meta",
             "assign_team", "set_conversation_open">>

\* C29, the other run of the pair: the same route, labels, team id and
\* results with the reason llm_classifier, and no confirmation reply.
C29_WitnessOtherReason ==
    /\ HandlerReturned /\ Branch = "human"
    /\ decision[1].reason = "llm_classifier"
    /\ label_set = {} /\ resolved_human_team_id = Some(1)
    /\ ~SomeCallFailed
    /\ HandlerMethods =
           <<"set_labels", "update_conversation_meta", "assign_team",
             "set_conversation_open">>

\* C29: on the other routes two reasons give the same requests.
C29_WitnessSameRequests ==
    /\ HandlerReturned /\ Branch = "mec_high"
    /\ decision[1].reason = "explicit_ai_request"
    /\ HandlerMethods =
           <<"send_message", "set_labels", "update_conversation_meta",
             "set_conversation_open">>

\* The custom attributes and the clearing of the assignee in the attribute
\* updates of the running dispatch, given the names of the two agents.
AttributesPerRoute(orchestrator, specialist) ==
    \A n \in MetaWrites :
        /\ Branch = "human" =>
               /\ calls[n].custom_attributes[1].handled_by = "human_team"
               /\ calls[n].custom_attributes[1].orchestrator_confidence = 0
               /\ ~calls[n].clear_assignment
        /\ Branch = "direct" =>
               /\ calls[n].custom_attributes[1].handled_by = orchestrator
               /\ calls[n].custom_attributes[1].orchestrator_confidence = 95
               /\ calls[n].clear_assignment
        /\ Branch = "mec_high" =>
               /\ calls[n].custom_attributes[1].handled_by = specialist
               /\ calls[n].custom_attributes[1].orchestrator_confidence =
                      specialist_result[1].confidence
               /\ calls[n].clear_assignment
        /\ Branch = "mec_low" =>
               /\ calls[n].custom_attributes[1].handled_by =
                      "human_team_after_low_confidence"
               /\ calls[n].custom_attributes[1].orchestrator_confidence =
                      specialist_result[1].confidence
               /\ ~calls[n].clear_assignment

\* C34 as stated: handled_by is human_team with confidence 0 on the human
\* route, agent_orchestrator with confidence 0.95 and the assignee cleared on
\* the direct route, agent_mec with the assignee cleared on the
\* high-confidence route; the human and low-confidence routes never clear
\* the assignee.
C34_AttributesAsStated ==
    Dispatching => AttributesPerRoute("agent_orchestrator", "agent_mec")

\* C34, amended: the same with the values the code writes for the two
\* agents, agent_1_orchestrator and agent_2_mec; on both knowledge branches
\* the confidence written is that of the specialist's result.
C34_AttributesPerRoute ==
    Dispatching => AttributesPerRoute("agent_1_orchestrator", "agent_2_mec")

\* C34 witness: a direct answer wrote agent_1_orchestrator with confidence
\* 0.95 and cleared the assignee.
C34_Witness ==
    /\ Branch = "direct"
    /\ \E n \in MetaWrites :
           /\ calls[n].custom_attributes[1].handled_by = "agent_1_orchestrator"
           /\ calls[n].custom_attributes[1].orchestrator_confidence = 95
           /\ calls[n].clear_assignment
           /\ calls[n].outcome = "ok"

\* C34: the other three branches wrote their attributes.
C34_WitnessSpecialist ==
    /\ Branch = "mec_high"
    /\ \E n \in MetaWrites :
           /\ calls[n].custom_attributes[1].handled_by = "agent_2_mec"
           /\ calls[n].clear_assignment
C34_WitnessHuman ==
    /\ Branch = "human"
    /\ \E n \in MetaWrites :
           /\ calls[n].custom_attributes[1].handled_by = "human_team"
           /\ ~calls[n].clear_assignment
C34_WitnessLowConfidence ==
    /\ Branch = "mec_low"
    /\ \E n \in MetaWrites :
           /\ calls[n].custom_attributes[1].handled_by =
                  "human_team_after_low_confidence"
           /\ ~calls[n].clear_assignment
           /\ calls[n].team_id # None


(***************************************************************************)
(* Properties of the team selection (checked under SpecTeams)              *)
(***************************************************************************)

\* The folded message, and whether it holds a text.
PickText == fold_text(InMessage)
Mentions(text) == Contains(PickText, text)

\* Source 1: the validated team of the semantic fallback.
RequestedTeam ==
    IF out_decision[1].requested_team # None /\ out_decision[1].requested_team[1] # ""
    THEN out_decision[1].requested_team ELSE None

\* Source 2: the first active team named in the message, in full or by
\* its stem.
MentionedTeam ==
    FirstTeam(LAMBDA f : f # "" /\ (\/ Contains(PickText, f)
                                   \/ /\ Len(f) > 4
                                      /\ re_search(Cat(<<WB, Lit(SubSeq(f, 1, Len(f) - 1))>>),
                                                   PickText)),
              InTeams)

\* Source 3: the team a keyword of the message points to.
FinanceTeam == FirstTeam(LAMBDA f : Contains(f, "financeiro"), InTeams)
SupportKeywordTeam == FirstTeam(LAMBDA f : Contains(f, "suporte"), InTeams)
SupportWordTeam ==
    FirstTeam(LAMBDA f : Contains(f, "support") \/ Contains(f, "suporte")
                             \/ Contains(f, "soporte"), InTeams)
InferredTeam ==
    IF re_search(Cat(<<WB, Lit("financeir")>>), PickText) /\ FinanceTeam # None
    THEN FinanceTeam
    ELSE IF re_search(Cat(<<WB, Lit("suport")>>), PickText) /\ SupportKeywordTeam # None
    THEN SupportKeywordTeam
    ELSE IF Mentions("support") \/ Mentions("soporte") THEN SupportWordTeam
    ELSE None

\* The configured support team, and the default human team when active.
SupportTeam ==
    FirstTeam(LAMBDA f : Contains(f, "suporte") \/ Contains(f, "support"), InTeams)
ActiveDefaultTeam ==
    IF TEAM_DEFAULT_HUMAN \in ToSet(InTeams) THEN Some(TEAM_DEFAULT_HUMAN) ELSE None

\* Source 4: a generic mention of a team.
GenericTeam ==
    IF Mentions("equipe") \/ Mentions("time") \/ Mentions("team") \/ Mentions("equipo")
    THEN (IF SupportTeam # None THEN SupportTeam ELSE ActiveDefaultTeam)
    ELSE None

\* The first of the four sources that yields a team, None when none does.
FirstSource ==
    IF RequestedTeam # None THEN RequestedTeam
    ELSE IF MentionedTeam # None THEN MentionedTeam
    ELSE IF InferredTeam # None THEN InferredTeam
    ELSE GenericTeam

\* C26: the team handed to the resolver is the team of the semantic
\* fallback when there is one, else the active team named in the message,
\* else the team a keyword points to, else, on a generic mention, the
\* support team and then the default human team: the first source that
\* yields a team is the one chosen.
C26_TeamPrecedence ==
    out_decision # None /\ FirstSource # None => selected_human_team = FirstSource

\* The team of a keyword was chosen although the message also mentions a
\* team generically, which points to another team.
C26_Witness ==
    /\ out_decision # None
    /\ RequestedTeam = None /\ MentionedTeam = None
    /\ InferredTeam # None /\ GenericTeam # None
    /\ InferredTeam # GenericTeam
    /\ selected_human_team = InferredTeam

\* The team of the semantic fallback was chosen over one the message names.
C26_RequestedOverMentioned ==
    /\ out_decision # None
    /\ RequestedTeam # None /\ MentionedTeam # None
    /\ RequestedTeam # MentionedTeam
    /\ selected_human_team = RequestedTeam

\* The team named in the message was chosen over the generic one.
C26_MentionedOverGeneric ==
    /\ out_decision # None
    /\ RequestedTeam = None
    /\ MentionedTeam # None /\ GenericTeam # None
    /\ MentionedTeam # GenericTeam
    /\ selected_human_team = MentionedTeam

\* None of the sources 1 to 4 yields a team.
NoSourceYields == out_decision # None /\ FirstSource = None

\* The team named exactly "suporte", for a message that holds "mec".
MecTeam ==
    IF Mentions("mec") THEN FirstTeam(LAMBDA f : f = "suporte", InTeams) ELSE None

\* C27 as stated: when no source yields a team the first active team is
\* chosen, else the configured fallback id, else nothing.
C27_FallbackIsFirstActive ==
    NoSourceYields =>
        selected_human_team =
            IF InTeams # <<>> THEN Some(InTeams[1])
            ELSE IF CHATWOOT_HUMAN_TEAM_ID # "" THEN Some(CHATWOOT_HUMAN_TEAM_ID)
            ELSE None

\* C27, amended: when no source yields a team and teams are active, the
\* team named "suporte" is chosen for a message holding "mec", else the
\* support team, else the default human team when active, else the first
\* active team; with no active team, the configured fallback id, else the
\* default human team name.
C27_FallbackPrefersSupport ==
    NoSourceYields =>
        selected_human_team =
            IF InTeams # <<>>
            THEN (IF MecTeam # None THEN MecTeam
                  ELSE IF SupportTeam # None THEN SupportTeam
                  ELSE IF ActiveDefaultTeam # None THEN ActiveDefaultTeam
                  ELSE Some(InTeams[1]))
            ELSE IF CHATWOOT_HUMAN_TEAM_ID # "" THEN Some(CHATWOOT_HUMAN_TEAM_ID)
            ELSE Some(TEAM_DEFAULT_HUMAN)

\* No source yields a team and the support team, listed second, is chosen
\* rather than the first active team.
C27_Witness ==
    /\ NoSourceYields
    /\ Len(InTeams) = 2
    /\ MecTeam = None
    /\ selected_human_team = Some(InTeams[2])
    /\ selected_human_team = SupportTeam

\* No team is active and no fallback id is set: the default human team
\* name is chosen.
C27_DefaultWithoutTeams ==
    /\ NoSourceYields
    /\ InTeams = <<>>
    /\ CHATWOOT_HUMAN_TEAM_ID = ""
    /\ selected_human_team = Some(TEAM_DEFAULT_HUMAN)

\* A message holding "mec" was given the team named "suporte", not the
\* support team listed first.
C27_MecRule ==
    /\ NoSourceYields
    /\ MecTeam # None
    /\ MecTeam # SupportTeam
    /\ selected_human_team = MecTeam

(***************************************************************************)
(* Properties of the response cache under threads (checked under           *)
(* SpecThreads)                                                            *)
(***************************************************************************)

\* The removals the threads have made in their running or last ask.
Removals == {<<t, n>> : t \in Workers, n \in 1..MaxAsks}
MadeRemoval(r) == r[2] \in DOMAIN threads[r[1]].removals
RemovalOf(r) == threads[r[1]].removals[r[2]]

\* C32 as stated: whatever the interleaving of the asks, the cache holds at
\* most its capacity, no ask fails because another thread changed the dict,
\* and a pop takes out nothing but the entry its thread had read and found
\* expired or oldest.
C32_CacheUncorrupted ==
    /\ Len(_response_cache) <= CacheCapacity
    /\ \A t \in Workers : threads[t].raised = ""
    /\ \A r \in Removals :
           MadeRemoval(r) =>
               \/ RemovalOf(r).removed = None
               \/ RemovalOf(r).removed = RemovalOf(r).chosen

\* C32, first failure: two threads passed the test of the size below the
\* capacity and both stored; the cache holds more entries than its capacity.
C32_OverCapacity == Len(_response_cache) > CacheCapacity

\* C32, second failure: the dict changed while min() iterated over it and
\* the ask ended with the exception.
C32_ScanFailed == \E t \in Workers : threads[t].raised = "RuntimeError"

\* C32, third failure: a thread removed an entry stored after it had read
\* the one under the same key; the entry removed was neither expired nor
\* the oldest one.
C32_LiveEntryLost ==
    \E r \in Removals :
        /\ MadeRemoval(r)
        /\ RemovalOf(r).removed # None
        /\ RemovalOf(r).removed # RemovalOf(r).chosen
        /\ (clock - RemovalOf(r).removed[1].ts) <= RESPONSE_CACHE_TTL_SECONDS
        /\ \E i \in DOMAIN _response_cache :
               _response_cache[i].ts < RemovalOf(r).removed[1].ts

(***************************************************************************)
(* Properties of a conversation (checked under SpecConversation)           *)
(***************************************************************************)

\* The messages that carry an explicit human request or an AI request.
SignalMessages ==
    {m \in DispatchMessages :
        \/ _requested_human(normalize_text(m))
        \/ _requested_ai(normalize_text(m))}

\* Message e was escalated for low confidence and {humano, ia_falha} written.
Escalated(e) ==
    /\ e \in DOMAIN conversation
    /\ conversation[e].processed /\ conversation[e].branch = "mec_low"
    /\ {CHATWOOT_LABEL_HUMANO, CHATWOOT_LABEL_IA_FALHA} \subseteq
           conversation[e].written

\* Message k came with the labels the engine wrote for the message before it
\* and carries neither signal.
Follows(k) ==
    /\ k \in DOMAIN conversation /\ k > 1
    /\ conversation[k - 1].processed
    /\ conversation[k].labels = conversation[k - 1].written
    /\ conversation[k].content \notin SignalMessages

\* C35 as stated: after a low-confidence escalation every later message
\* that carries the labels last written and neither signal is routed to
\* human.
C35_LockHoldsOverConversation ==
    \A e, j \in DOMAIN conversation :
        (/\ e < j /\ Escalated(e)
         /\ \A k \in (e + 1)..j : Follows(k)
         /\ conversation[j].processed) =>
            conversation[j].route = "human"

\* C35, what the code does: the first message after the escalation is routed
\* to human by the lock and the human route writes humano alone, so the lock
\* is gone and the second message after the escalation is classified as in a
\* conversation never escalated.
C35_LockLastsOneMessage ==
    \A e \in DOMAIN conversation :
        /\ (Escalated(e) /\ Follows(e + 1) /\ conversation[e + 1].processed) =>
               /\ conversation[e + 1].route = "human"
               /\ conversation[e + 1].reason = "conversation_already_human"
               /\ conversation[e + 1].written \cap _managed_labels =
                      {CHATWOOT_LABEL_HUMANO}
        /\ (Escalated(e) /\ Follows(e + 1) /\ Follows(e + 2)
            /\ conversation[e + 2].processed) =>
               /\ conversation[e + 2].route # "human"
               /\ conversation[e + 2].reason \in {"smalltalk",
                      "mec_domain_keyword", "default_mec_route"}

\* C35: the third message of an escalated conversation, "bom dia" with the
\* labels last written and no signal, was answered by the engine itself.
C35_AnsweredAgain ==
    /\ Len(conversation) = 3
    /\ Escalated(1) /\ Follows(2) /\ Follows(3)
    /\ conversation[2].route = "human"
    /\ conversation[3].processed /\ conversation[3].content = "bom dia"
    /\ conversation[3].labels = {CHATWOOT_LABEL_HUMANO}
    /\ conversation[3].route = "direct"

\* The labels that are not the engine's.
External(labels) == labels \ _managed_labels
Done == {i \in DOMAIN conversation : conversation[i].processed}

\* C36 as stated: a set_labels call of the engine never removes a label that
\* is not the engine's and is on the conversation when the call is made.
C36_NoExternalLabelRemoved ==
    \A i \in Done :
        External(conversation[i].before) \subseteq conversation[i].written

\* C36, amended: the list sent is composed from the snapshot of the event.
\* It keeps the labels of the snapshot that are not the engine's and sets
\* the engine's to the target of the branch; of the other labels on the
\* conversation when the call is made it removes exactly those that are not
\* in the snapshot (the last write wins).
C36_WritesFromSnapshot ==
    \A i \in Done :
        /\ External(conversation[i].written) = External(conversation[i].labels)
        /\ conversation[i].written \cap _managed_labels =
               target_labels(conversation[i].branch)
        /\ External(conversation[i].before) \ conversation[i].written =
               External(conversation[i].before) \ conversation[i].labels

\* C36 witness: a label applied before the event was kept by the call.
C36_Witness ==
    \E i \in Done :
        /\ "vip" \in conversation[i].labels
        /\ "vip" \in conversation[i].before
        /\ "vip" \in conversation[i].written
        /\ platform_labels = conversation[i].written

\* C36: a label applied after the snapshot of the event was removed.
C36_LabelRemoved ==
    \E i \in Done :
        /\ Len(conversation) = 1
        /\ conversation[i].labels = {}
        /\ "vip" \in conversation[i].before
        /\ "vip" \notin platform_labels

\* C36: of two dispatches of the conversation the one with the older
\* snapshot wrote last and removed the label the other had kept.
C36_InterleavedRemoval ==
    /\ Len(conversation) = 2 /\ Done = {1, 2}
    /\ "vip" \notin conversation[1].labels
    /\ "vip" \in conversation[2].written
    /\ "vip" \in conversation[1].before
    /\ conversation[1].before = conversation[2].written
    /\ "vip" \notin platform_labels

(***************************************************************************)
(* Properties of RagSystem.ask (checked under SpecAsk)                     *)
(***************************************************************************)

KeyOf(j) == CacheKey(asks[j].session_id, asks[j].question)

\* The entries of the key of call j that the call found and that were no
\* older than the TTL.
LiveEntries(j) ==
    {p \in DOMAIN asks[j].before :
        /\ asks[j].before[p].key = KeyOf(j)
        /\ asks[j].now - asks[j].before[p].ts <= RESPONSE_CACHE_TTL_SECONDS}

\* Call i ran the agent and stored its answer.
Answered(i) == asks[i].ran /\ asks[i].raises = ""

C39_AskedAgainAfterTtl ==
    \E i, j \in DOMAIN asks :
        /\ i < j /\ Answered(i) /\ Answered(j) /\ KeyOf(i) = KeyOf(j)
        /\ asks[j].now - asks[i].now > RESPONSE_CACHE_TTL_SECONDS

\* C39: the same question in another session is answered by the agent.
C39_OtherSessionAsked ==
    \E i, j \in DOMAIN asks :
        /\ j = i + 1 /\ Answered(i) /\ Answered(j)
        /\ asks[i].question = asks[j].question
        /\ asks[i].session_id # asks[j].session_id
        /\ asks[j].now = asks[i].now

(***************************************************************************)
(* Properties of OrquestradorHF (checked under SpecLazy)                   *)
(***************************************************************************)

\* The thread got past _ensure_loaded without an exception.
PastEnsureLoaded(t) == threads[t].pc \in {"loaded", "returned"}

Loaded(embeddings) == DOMAIN embeddings = Intents

\* C40: whatever the interleaving of first calls of classify and warmup,
\* the model and the embeddings are loaded at most once, and exactly once
\* when a thread got past _ensure_loaded; the model is never set while the
\* embeddings are empty, so every thread past _ensure_loaded finds the
\* model and the embeddings of all intents, and so does every classify
\* when it reads them.
C40_LoadedOnce ==
    /\ loads <= 1
    /\ _model # None => loads = 1 /\ Loaded(_embeddings)
    /\ \A t \in Callers :
           /\ PastEnsureLoaded(t) =>
                  loads = 1 /\ _model # None /\ Loaded(_embeddings)
           /\ threads[t].seen # None =>
                  /\ threads[t].seen[1].model # None
                  /\ Loaded(threads[t].seen[1].embeddings)
    /\ \A t, u \in Callers :
           /\ threads[t].path = "load" /\ threads[u].path = "load"
           /\ PastEnsureLoaded(t) /\ PastEnsureLoaded(u)
           => t = u

\* C40 witness: three threads made their first call at once; one loaded,
\* one found the model at the check under the lock after waiting for the
\* lock, one at the check without the lock, and the two that called
\* classify read the model and the embeddings.
C40_Witness ==
    /\ \A t \in Callers : threads[t].pc = "returned"
    /\ {threads[t].path : t \in Callers} = {"load", "second_check", "first_check"}
    /\ \E t, u \in Callers :
           /\ t # u
           /\ threads[t].seen # None /\ threads[u].seen # None
           /\ threads[t].path = "second_check"
    /\ loads = 1

\* C40: a thread waits for the lock while another, past both checks, has
\* assigned the embeddings and not yet the model.
C40_WaitingForLoader ==
    \E t, u \in Callers :
        /\ threads[t].pc = "assign_model" /\ threads[u].pc = "acquire"
        /\ _model = None /\ Loaded(_embeddings)

\* C40: a load that raised left nothing behind and the next thread loaded.
C40_LoadedAfterFailure ==
    \E t, u \in Callers :
        /\ threads[t].pc = "raised" /\ threads[u].path = "load"
        /\ PastEnsureLoaded(u) /\ loads = 1

====
